---- MODULE Spec2Model ----
(***************************************************************************)
(* Data-merge session of the file vault (DetailSidebar in                 *)
(* src/components/SettingsPage.tsx) over the blob store of                *)
(* src/services/storage.ts.                                               *)
(*                                                                         *)
(* Strings are tuples of one-character strings; a nullable value is the   *)
(* empty tuple (null / undefined) or a one-element tuple holding it.      *)
(***************************************************************************)
EXTENDS Integers, Sequences, FiniteSets, Bags, TLC

None == << >>
Some(x) == <<x>>

\* ------------------------------------------------------------------ bounds
\* operations in flight at once
MaxTasks == 2
\* records in the store
MaxStore == 2
\* pairs the user adds by hand up to
MaxPairs == 2
\* user actions in one run
MaxUserSteps == 4
\* operations started for an earlier target that are still in flight when the
\* detail view is opened again
MaxLeftOver == 1

\* --------------------------------------------------------- string builtins
\* sub occurs in s at position i
IsPrefixAt(s, sub, i) ==
  /\ i >= 1
  /\ i + Len(sub) - 1 <= Len(s)
  /\ \A j \in 1..Len(sub) : s[i + j - 1] = sub[j]

\* String.prototype.includes
Includes(s, sub) == \E i \in 1..(Len(s) - Len(sub) + 1) : IsPrefixAt(s, sub, i)

\* String.prototype.startsWith / endsWith
StartsWith(s, p) == IsPrefixAt(s, p, 1)
EndsWith(s, p) == Len(p) <= Len(s) /\ IsPrefixAt(s, p, Len(s) - Len(p) + 1)

\* String.prototype.toLowerCase on the letters the model uses
LowerChar(c) ==
  CASE c = "T" -> "t"
    [] c = "X" -> "x"
    [] c = "D" -> "d"
    [] OTHER -> c
ToLowerCase(s) == [i \in 1..Len(s) |-> LowerChar(s[i])]

IsSpace(c) == c \in {" ", "\t", "\r", "\n"}

\* String.prototype.trim
RECURSIVE TrimStart(_)
TrimStart(s) ==
  IF Len(s) = 0 THEN s
  ELSE IF IsSpace(s[1]) THEN TrimStart(Tail(s)) ELSE s
RECURSIVE TrimEnd(_)
TrimEnd(s) ==
  IF Len(s) = 0 THEN s
  ELSE IF IsSpace(s[Len(s)]) THEN TrimEnd(SubSeq(s, 1, Len(s) - 1)) ELSE s
Trim(s) == TrimEnd(TrimStart(s))

\* --------------------------------------------- String.prototype.replace
\* Expansion of the replacement string for one match: "$$" is a dollar,
\* "$&" the matched text, dollar-backtick the text before the match and
\* dollar-apostrophe the text after it (those two characters are written
\* "BACKTICK" and "APOSTROPHE"); the pattern has no capture groups, so every
\* other "$" is literal.
RECURSIVE ExpandReplacement(_, _, _, _)
ExpandReplacement(value, matched, before, after) ==
  IF Len(value) = 0 THEN << >>
  ELSE IF value[1] = "$" /\ Len(value) >= 2
          /\ value[2] \in {"$", "&", "BACKTICK", "APOSTROPHE"}
       THEN (CASE value[2] = "$" -> <<"$">>
               [] value[2] = "&" -> matched
               [] value[2] = "BACKTICK" -> before
               [] OTHER -> after)
            \o ExpandReplacement(SubSeq(value, 3, Len(value)), matched, before, after)
       ELSE <<value[1]>> \o ExpandReplacement(Tail(value), matched, before, after)

\* s.match(new RegExp(escaped key, g)): the number of non-overlapping
\* occurrences of key in s, scanning left to right from position i.
RECURSIVE CountMatchesFrom(_, _, _)
CountMatchesFrom(s, key, i) ==
  IF i > Len(s) THEN 0
  ELSE IF IsPrefixAt(s, key, i) THEN 1 + CountMatchesFrom(s, key, i + Len(key))
       ELSE CountMatchesFrom(s, key, i + 1)
CountMatches(s, key) == CountMatchesFrom(s, key, 1)

\* s.replace(new RegExp(escaped key, g), value)
RECURSIVE ReplaceAllFrom(_, _, _, _)
ReplaceAllFrom(s, key, value, i) ==
  IF i > Len(s) THEN << >>
  ELSE IF IsPrefixAt(s, key, i)
       THEN ExpandReplacement(value, key, SubSeq(s, 1, i - 1),
                              SubSeq(s, i + Len(key), Len(s)))
            \o ReplaceAllFrom(s, key, value, i + Len(key))
       ELSE <<s[i]>> \o ReplaceAllFrom(s, key, value, i + 1)
ReplaceAll(s, key, value) == ReplaceAllFrom(s, key, value, 1)

\* -------------------------------------------- Record<string, string> objects
\* An object is the sequence of its [key, value] entries in insertion order.
HasKey(data, k) == \E i \in 1..Len(data) : data[i].key = k

\* data[k] = v: an existing property keeps its place, a new one is appended
ObjSet(data, k, v) ==
  IF HasKey(data, k)
  THEN [i \in 1..Len(data) |-> IF data[i].key = k THEN [key |-> k, value |-> v] ELSE data[i]]
  ELSE Append(data, [key |-> k, value |-> v])

\* data[k] of a present key
ObjGet(data, k) == LET i == CHOOSE i \in 1..Len(data) : data[i].key = k IN data[i].value

IsDigit(c) == c \in {"0", "1", "2", "3", "4", "5", "6", "7", "8", "9"}
DigitVal(c) ==
  CASE c = "0" -> 0 [] c = "1" -> 1 [] c = "2" -> 2 [] c = "3" -> 3 [] c = "4" -> 4
    [] c = "5" -> 5 [] c = "6" -> 6 [] c = "7" -> 7 [] c = "8" -> 8 [] OTHER -> 9

\* A canonical array index ("0", "7", "12"; not "", "07"): such own properties
\* are enumerated first, in ascending numeric order.
IsIndexKey(k) ==
  /\ Len(k) >= 1
  /\ Len(k) <= 9
  /\ \A i \in 1..Len(k) : IsDigit(k[i])
  /\ (Len(k) = 1 \/ k[1] # "0")
RECURSIVE IndexVal(_)
IndexVal(k) ==
  IF Len(k) = 0 THEN 0 ELSE 10 * IndexVal(SubSeq(k, 1, Len(k) - 1)) + DigitVal(k[Len(k)])

\* Object.entries(data) / Object.keys(data): own-property enumeration order
ObjEntries(data) ==
  LET idx == SelectSeq(data, LAMBDA e : IsIndexKey(e.key))
      str == SelectSeq(data, LAMBDA e : ~IsIndexKey(e.key))
  IN SortSeq(idx, LAMBDA a, b : IndexVal(a.key) < IndexVal(b.key)) \o str

\* -------------------------------------------------- line-based text parsing
\* text.split(newline)
RECURSIVE SplitLines(_)
SplitLines(text) ==
  IF \E i \in 1..Len(text) : text[i] = "\n"
  THEN LET i == CHOOSE i \in 1..Len(text) :
                  text[i] = "\n" /\ \A j \in 1..(i - 1) : text[j] # "\n"
       IN <<SubSeq(text, 1, i - 1)>> \o SplitLines(SubSeq(text, i + 1, Len(text)))
  ELSE <<text>>

\* trimmed.split(/\s+/) of a string with no leading or trailing white space
RECURSIVE SplitSpaces(_)
SplitSpaces(s) ==
  IF \E i \in 1..Len(s) : IsSpace(s[i])
  THEN LET i == CHOOSE i \in 1..Len(s) :
                  IsSpace(s[i]) /\ \A j \in 1..(i - 1) : ~IsSpace(s[j])
       IN <<SubSeq(s, 1, i - 1)>> \o SplitSpaces(TrimStart(SubSeq(s, i, Len(s))))
  ELSE <<s>>

\* parts.join(space)
RECURSIVE JoinSpace(_)
JoinSpace(parts) ==
  IF Len(parts) = 0 THEN << >>
  ELSE IF Len(parts) = 1 THEN parts[1]
  ELSE parts[1] \o <<" ">> \o JoinSpace(Tail(parts))

IsDelim(c) == c \in {":", "=", ","}
IsDelimOrTab(c) == c \in {":", "=", ",", "\t"}

\* trimmed.match(/^([^:=,]+)[:=,\t]+(.*)$/): None, or <<group 1, group 2>>.
\* Group 1 is greedy: it runs to the first colon, equals sign or comma; when the line has
\* none of them it backs off to the last tab. The separator run is greedy too.
LineMatch(s) ==
  LET lead == IF \E i \in 1..Len(s) : IsDelim(s[i])
              THEN (CHOOSE i \in 1..Len(s) :
                      IsDelim(s[i]) /\ \A j \in 1..(i - 1) : ~IsDelim(s[j])) - 1
              ELSE Len(s)
      tabs == {g \in 1..(Len(s) - 1) : s[g + 1] = "\t"}
      g1 == IF lead < Len(s) THEN lead
            ELSE IF tabs = {} THEN 0
            ELSE CHOOSE g \in tabs : \A h \in tabs : h <= g
      sepEnd == CHOOSE e \in g1..Len(s) :
                  /\ \A j \in (g1 + 1)..e : IsDelimOrTab(s[j])
                  /\ (e = Len(s) \/ ~IsDelimOrTab(s[e + 1]))
  IN IF g1 = 0 THEN None
     ELSE Some(<<SubSeq(s, 1, g1), SubSeq(s, sepEnd + 1, Len(s))>>)

\* one iteration of lines.forEach in the line-based fallback
ParseLine(data, line) ==
  LET trimmed == Trim(line)
      m == LineMatch(trimmed)
      parts == SplitSpaces(trimmed)
  IN IF Len(trimmed) = 0 THEN data
     ELSE IF m # None THEN ObjSet(data, Trim(m[1][1]), Trim(m[1][2]))
     ELSE IF Len(parts) >= 2 THEN ObjSet(data, parts[1], JoinSpace(Tail(parts)))
     ELSE ObjSet(data, trimmed, << >>)

RECURSIVE ParseLinesFrom(_, _)
ParseLinesFrom(data, lines) ==
  IF Len(lines) = 0 THEN data
  ELSE ParseLinesFrom(ParseLine(data, Head(lines)), Tail(lines))

\* The JSON arm: a blob whose text is valid JSON is held as the parsed value,
\* [json |-> "array", items |-> ...] (items: [key, value] with nullable value),
\* [json |-> "object", props |-> ...] (props: [key, str, value]) or any other
\* JSON value.
RECURSIVE JsonArrayData(_, _)
JsonArrayData(data, items) ==
  IF Len(items) = 0 THEN data
  ELSE LET it == Head(items)
       IN JsonArrayData(
            IF it.key # None /\ Len(it.key[1]) > 0
            THEN ObjSet(data, it.key[1],
                        IF it.value # None /\ Len(it.value[1]) > 0 THEN it.value[1] ELSE << >>)
            ELSE data,
            Tail(items))
RECURSIVE JsonObjectData(_, _)
JsonObjectData(data, props) ==
  IF Len(props) = 0 THEN data
  ELSE LET p == Head(props)
       IN JsonObjectData(IF p.str THEN ObjSet(data, p.key, p.value) ELSE data, Tail(props))

\* reader.onload of the JSON/CSV/TXT handler, up to the call of processData
ParseTextBlob(content) ==
  IF content.kind = "json"
  THEN (IF content.json = "array" THEN JsonArrayData(<< >>, content.items)
        ELSE IF content.json = "object" THEN JsonObjectData(<< >>, content.props)
        ELSE << >>)
  ELSE ParseLinesFrom(<< >>, SplitLines(content.text))

\* ------------------------------------------------------------ spreadsheet
\* The Excel handler: sheet_to_json(worksheet, {header: 1}) gives the rows as
\* arrays of nullable cells; column 0 is the key and column 1 the value.
RECURSIVE ExcelMapping(_, _)
ExcelMapping(mapping, rows) ==
  IF Len(rows) = 0 THEN mapping
  ELSE LET row == Head(rows)
       IN ExcelMapping(
            IF Len(row) >= 1 /\ row[1] # None
            THEN ObjSet(mapping, Trim(row[1][1]),
                        IF Len(row) >= 2 /\ row[2] # None THEN Trim(row[2][1]) ELSE << >>)
            ELSE mapping,
            Tail(rows))

\* --------------------------------------------------------- Word data files
\* The Word handler reads the HTML of the document: tables is the sequence of
\* its tables, a table a sequence of rows, a row a sequence of cells
\* [text, th]; text is the text of the body.

\* rows.forEach of the Word handler: the first td cell is the key, the second
\* the value
RECURSIVE WordRows(_, _)
WordRows(mapping, rows) ==
  IF Len(rows) = 0 THEN mapping
  ELSE LET cells == SelectSeq(Head(rows), LAMBDA c : ~c.th)
           key == IF Len(cells) >= 1 THEN Trim(cells[1].text) ELSE << >>
           value == IF Len(cells) >= 2 THEN Trim(cells[2].text) ELSE << >>
       IN WordRows(IF Len(key) > 0 THEN ObjSet(mapping, key, value) ELSE mapping, Tail(rows))

\* trimmed.split(/[:=]\s*/)
RECURSIVE SplitColon(_)
SplitColon(s) ==
  LET hits == {i \in 1..Len(s) : s[i] \in {":", "="}}
  IN IF hits = {} THEN <<s>>
     ELSE LET i == CHOOSE i \in hits : \A j \in hits : i <= j
          IN <<SubSeq(s, 1, i - 1)>> \o SplitColon(TrimStart(SubSeq(s, i + 1, Len(s))))

\* lines.forEach of the fallback of the Word handler; split always gives one
\* part at least, so the branch on tabs and double spaces is never taken
WordLine(mapping, line) ==
  LET trimmed == Trim(line)
      parts == SplitColon(trimmed)
      key == Trim(parts[1])
  IN IF Len(trimmed) = 0 \/ Len(key) = 0 THEN mapping
     ELSE ObjSet(mapping, key, Trim(JoinSpace(Tail(parts))))
RECURSIVE WordLinesFrom(_, _)
WordLinesFrom(mapping, lines) ==
  IF Len(lines) = 0 THEN mapping
  ELSE WordLinesFrom(WordLine(mapping, Head(lines)), Tail(lines))

RECURSIVE Concat(_)
Concat(seqs) == IF Len(seqs) = 0 THEN << >> ELSE Head(seqs) \o Concat(Tail(seqs))

\* reader.onload of the Word handler, from the HTML to the call of processData
WordMapping(content) ==
  LET mapping == WordRows(<< >>, Concat(content.tables))
  IN IF Len(mapping) > 0 THEN mapping
     ELSE WordLinesFrom(<< >>, SplitLines(content.text))


\* ------------------------------------------------- identifier normalisation
Dollar == <<"$", "%">>
Percent == <<"%", "$">>

\* k.trim().replace(/^\$%|%\$$/g, ''): each side is stripped on its own
StripDecoration(k) ==
  LET t == Trim(k)
      a == IF StartsWith(t, Dollar) THEN SubSeq(t, 3, Len(t)) ELSE t
  IN IF EndsWith(a, Percent) THEN SubSeq(a, 1, Len(a) - 2) ELSE a

\* handleMerge's cleanKey: the decoration is removed only when both sides are there
CleanKey(key) ==
  LET t == Trim(key)
  IN IF StartsWith(t, Dollar) /\ EndsWith(t, Percent) THEN SubSeq(t, 3, Len(t) - 2) ELSE t

\* handleMerge's searchKey: the fully decorated placeholder
SearchKey(key) ==
  LET t == Trim(key)
      a == IF StartsWith(t, Dollar) THEN t ELSE Dollar \o t
  IN IF EndsWith(a, Percent) THEN a ELSE a \o Percent

\* the identifier-column label and the labels of the enriched fields
\* (the four, four, two and two characters of the source's literals)
DeviceIdLabel == <<"U8BBE", "U5907", "U7F16", "U53F7">>
DeviceNameLabel == <<"U8BBE", "U5907", "U540D", "U79F0">>
ModelLabel == <<"U578B", "U53F7">>
MakerLabel == <<"U5382", "U5BB6">>
Decorated(label) == Dollar \o label \o Percent

\* processData's deviceId: the value under the first key that normalises to the
\* label, or the empty string
DeviceIdOf(data) ==
  LET keys == ObjEntries(data)
      hits == {i \in 1..Len(keys) : StripDecoration(keys[i].key) = DeviceIdLabel}
  IN IF hits = {} THEN << >>
     ELSE keys[CHOOSE i \in hits : \A j \in hits : i <= j].value

\* ------------------------------------------------------ plain-text merging
\* The updatedPairs map of the text branch: the pairs are applied one after
\* the other to newContent.
RECURSIVE TextMergeFrom(_, _, _, _)
TextMergeFrom(newContent, replacementCount, done, rest) ==
  IF Len(rest) = 0
  THEN [content |-> newContent, count |-> replacementCount, pairs |-> done]
  ELSE LET p == Head(rest)
           isReplaced == Len(p.key) > 0 /\ Includes(newContent, p.key)
       IN TextMergeFrom(
            IF isReplaced THEN ReplaceAll(newContent, p.key, p.value) ELSE newContent,
            IF isReplaced THEN replacementCount + CountMatches(newContent, p.key)
                          ELSE replacementCount,
            Append(done, [p EXCEPT !.status = IF isReplaced THEN "replaced" ELSE "not-found"]),
            Tail(rest))
TextMerge(content, pairs) == TextMergeFrom(content, 0, << >>, pairs)

\* [\w\d]
IsWordChar(c) ==
  c \in {"a", "b", "c", "d", "e", "f", "g", "h", "i", "j", "k", "l", "m", "n", "o", "p",
         "q", "r", "s", "t", "u", "v", "w", "x", "y", "z", "A", "B", "C", "D", "E", "F",
         "G", "H", "I", "J", "K", "L", "M", "N", "O", "P", "Q", "R", "S", "T", "U", "V",
         "W", "X", "Y", "Z", "0", "1", "2", "3", "4", "5", "6", "7", "8", "9", "_"}

Merged == <<"_", "m", "e", "r", "g", "e", "d">>

\* name.replace(/(\.[\w\d]+)$/, '_merged$1')
OutputName(name) ==
  LET dots == {i \in 1..(Len(name) - 1) :
                 name[i] = "." /\ \A j \in (i + 1)..Len(name) : IsWordChar(name[j])}
  IN IF dots = {} THEN name
     ELSE LET i == CHOOSE i \in dots : TRUE
          IN SubSeq(name, 1, i - 1) \o Merged \o SubSeq(name, i, Len(name))

\* ------------------------------------------------------------ DOCX merging
DocxMime == "application/vnd.openxmlformats-officedocument.wordprocessingml.document"
DocxExt == <<".", "d", "o", "c", "x">>

\* the branch test of handleMerge
IsDocxTarget(doc) == EndsWith(ToLowerCase(doc.name), DocxExt) \/ doc.type = DocxMime

\* the presence check on the raw text of the template
DocxStatuses(pairs, textContent) ==
  [i \in 1..Len(pairs) |->
     [pairs[i] EXCEPT !.status =
        IF Includes(textContent, SearchKey(pairs[i].key)) THEN "replaced" ELSE "not-found"]]

\* the data object handed to the renderer
RECURSIVE DocxDataFrom(_, _)
DocxDataFrom(data, pairs) ==
  IF Len(pairs) = 0 THEN data
  ELSE DocxDataFrom(ObjSet(data, CleanKey(Head(pairs).key), Head(pairs).value), Tail(pairs))
DocxData(pairs) == DocxDataFrom(<< >>, pairs)

Undefined == <<"u", "n", "d", "e", "f", "i", "n", "e", "d">>

\* The template-rendering collaborator with delimiters "$%" and "%$": every tag
\* is replaced by the value of its trimmed name (the text "undefined" when the
\* data has none); an unclosed or unopened tag makes it throw. The result is
\* [ok |-> FALSE] or [ok |-> TRUE, text |-> ...].
FirstAt(s, sub, from) ==
  LET hits == {i \in from..Len(s) : IsPrefixAt(s, sub, i)}
  IN IF hits = {} THEN 0 ELSE CHOOSE i \in hits : \A j \in hits : i <= j
RECURSIVE RenderFrom(_, _, _)
RenderFrom(s, data, i) ==
  LET open == FirstAt(s, Dollar, i)
      close == FirstAt(s, Percent, IF open = 0 THEN i ELSE open + 2)
  IN IF open = 0
     THEN (IF close = 0 THEN [ok |-> TRUE, text |-> SubSeq(s, i, Len(s))]
           ELSE [ok |-> FALSE, text |-> << >>])
     ELSE IF close = 0 \/ FirstAt(s, Percent, i) < open
     THEN [ok |-> FALSE, text |-> << >>]
     ELSE LET tag == Trim(SubSeq(s, open + 2, close - 1))
              rest == RenderFrom(s, data, close + 2)
          IN [ok |-> rest.ok,
              text |-> SubSeq(s, i, open - 1)
                       \o (IF HasKey(data, tag) THEN ObjGet(data, tag) ELSE Undefined)
                       \o rest.text]
\* new PizZip(buffer), new docxtemplater(zip, ...), doc.render(data), generate:
\* a blob that is no DOCX container makes PizZip throw
DocxRender(content, data) ==
  IF content.kind # "docx" THEN [ok |-> FALSE, text |-> << >>]
  ELSE RenderFrom(content.text, data, 1)

\* ------------------------------------------------------------ the blob store
\* A stored record is [id, name, type, lastModified, content, isDeviceInfo,
\* isDataMergeFile, parentFileId]; ids stand for the UUID keys in key order.
\* A blob is [kind |-> "text", text], [kind |-> "json", ...], [kind |-> "xlsx",
\* rows] or [kind |-> "docx", text, tables].

\* the record without its content
MetaOf(r) == [f \in (DOMAIN r) \ {"content"} |-> r[f]]

\* getAllMetadata: getAll() in key order, then a stable sort, newest first
RECURSIVE SortedMeta(_)
SortedMeta(recs) ==
  IF recs = {} THEN << >>
  ELSE LET first == CHOOSE r \in recs :
                      \A q \in recs :
                        \/ r.lastModified > q.lastModified
                        \/ (r.lastModified = q.lastModified /\ r.id <= q.id)
       IN <<MetaOf(first)>> \o SortedMeta(recs \ {first})
GetAllMetadata(st) == SortedMeta(st)

\* getFile: the record, or undefined
GetFile(st, id) ==
  IF \E r \in st : r.id = id THEN Some(CHOOSE r \in st : r.id = id) ELSE None

\* allFiles.filter(f => f.isDataMergeFile && f.parentFileId === fileMeta.id)
DataFilesOf(st, target) ==
  SelectSeq(GetAllMetadata(st),
            LAMBDA f : f.isDataMergeFile /\ f.parentFileId = Some(target))

\* -------------------------------------------------------- enrichment lookup
NotFound == [found |-> FALSE, deviceName |-> None, model |-> None, manufacturer |-> None]

\* sheet_to_json(sheet): one object per row after the header row, keyed by the
\* header cells, holding the row's non-empty cells
SheetObject(headers, row) ==
  LET cols == SelectSeq([c \in 1..Len(row) |-> c],
                        LAMBDA c : row[c] # None /\ c <= Len(headers) /\ headers[c] # None)
  IN [i \in 1..Len(cols) |-> [key |-> headers[cols[i]][1], value |-> row[cols[i]][1]]]

\* rowKeys.find(k => k.trim() === label): the value under it, or undefined
FieldOf(obj, label) ==
  LET hits == {i \in 1..Len(obj) : Trim(obj[i].key) = label}
  IN IF hits = {} THEN None
     ELSE Some(obj[CHOOSE i \in hits : \A j \in hits : i <= j].value)

\* the row loop going on to the next row when the matching row holds none of
\* the three fields
RECURSIVE SearchSheetRowsWithFields(_, _, _)
SearchSheetRowsWithFields(headers, rows, deviceId) ==
  IF Len(rows) = 0 THEN NotFound
  ELSE LET obj == SheetObject(headers, Head(rows))
           id == FieldOf(obj, DeviceIdLabel)
       IN IF /\ id # None /\ Trim(id[1]) = Trim(deviceId)
             /\ \/ FieldOf(obj, DeviceNameLabel) # None
                \/ FieldOf(obj, ModelLabel) # None
                \/ FieldOf(obj, MakerLabel) # None
          THEN [found |-> TRUE,
                deviceName |-> FieldOf(obj, DeviceNameLabel),
                model |-> FieldOf(obj, ModelLabel),
                manufacturer |-> FieldOf(obj, MakerLabel)]
          ELSE SearchSheetRowsWithFields(headers, Tail(rows), deviceId)

\* the row loop of the Excel handler of searchDeviceInStorage
RECURSIVE SearchSheetRows(_, _, _)
SearchSheetRows(headers, rows, deviceId) ==
  IF Len(rows) = 0 THEN NotFound
  ELSE LET obj == SheetObject(headers, Head(rows))
           id == FieldOf(obj, DeviceIdLabel)
       IN IF id # None /\ Trim(id[1]) = Trim(deviceId)
          THEN [found |-> TRUE,
                deviceName |-> FieldOf(obj, DeviceNameLabel),
                model |-> FieldOf(obj, ModelLabel),
                manufacturer |-> FieldOf(obj, MakerLabel)]
          ELSE SearchSheetRows(headers, Tail(rows), deviceId)

\* headerCells.indexOf(label), 0 for -1
IndexOfText(cells, label) ==
  LET hits == {i \in 1..Len(cells) : Trim(cells[i].text) = label}
  IN IF hits = {} THEN 0 ELSE CHOOSE i \in hits : \A j \in hits : i <= j

\* cells[index]?.textContent?.trim() over the td cells of a row
TdText(row, index) ==
  LET tds == SelectSeq(row, LAMBDA c : ~c.th)
  IN IF index >= 1 /\ index <= Len(tds) THEN Some(Trim(tds[index].text)) ELSE None

\* the row loop over one table of the Word handler of searchDeviceInStorage
RECURSIVE SearchTableRows(_, _, _)
SearchTableRows(headerCells, rows, deviceId) ==
  LET idIndex == IndexOfText(headerCells, DeviceIdLabel)
  IN IF Len(rows) = 0 \/ idIndex = 0 THEN NotFound
     ELSE IF TdText(Head(rows), idIndex) = Some(Trim(deviceId))
          THEN [found |-> TRUE,
                deviceName |-> TdText(Head(rows), IndexOfText(headerCells, DeviceNameLabel)),
                model |-> TdText(Head(rows), IndexOfText(headerCells, ModelLabel)),
                manufacturer |-> TdText(Head(rows), IndexOfText(headerCells, MakerLabel))]
          ELSE SearchTableRows(headerCells, Tail(rows), deviceId)
RECURSIVE SearchTables(_, _)
SearchTables(tables, deviceId) ==
  IF Len(tables) = 0 THEN NotFound
  ELSE LET rows == Head(tables)
           hit == IF Len(rows) < 2 THEN NotFound
                  ELSE SearchTableRows(Head(rows), Tail(rows), deviceId)
       IN IF hit.found THEN hit ELSE SearchTables(Tail(tables), deviceId)

XlsxExt == <<".", "x", "l", "s", "x">>
XlsExt == <<".", "x", "l", "s">>
DocExt == <<".", "d", "o", "c">>

\* One device-info document: [thrown, hit]. A blob the decoder cannot read
\* makes it throw.
SearchInFile(file, deviceId, lib) ==
  LET fname == ToLowerCase(file.name)
  IN IF EndsWith(fname, XlsxExt) \/ EndsWith(fname, XlsExt)
     THEN (IF ~lib.XLSX THEN [thrown |-> FALSE, hit |-> NotFound]
           ELSE IF file.content.kind # "xlsx" THEN [thrown |-> TRUE, hit |-> NotFound]
           ELSE [thrown |-> FALSE,
                 hit |-> IF Len(file.content.rows) = 0 THEN NotFound
                         ELSE SearchSheetRows(Head(file.content.rows),
                                              Tail(file.content.rows), deviceId)])
     ELSE IF EndsWith(fname, DocxExt) \/ EndsWith(fname, DocExt)
     THEN (IF ~lib.mammoth THEN [thrown |-> FALSE, hit |-> NotFound]
           ELSE IF file.content.kind # "docx" THEN [thrown |-> TRUE, hit |-> NotFound]
           ELSE [thrown |-> FALSE, hit |-> SearchTables(file.content.tables, deviceId)])
     ELSE [thrown |-> FALSE, hit |-> NotFound]

\* the loop over deviceFiles; the one try/catch encloses the whole loop, so a
\* document that throws ends the search with null
RECURSIVE SearchFiles(_, _, _, _)
SearchFiles(st, metas, deviceId, lib) ==
  IF Len(metas) = 0 THEN NotFound
  ELSE LET file == GetFile(st, Head(metas).id)
           r == IF file = None THEN [thrown |-> FALSE, hit |-> NotFound]
                ELSE SearchInFile(file[1], deviceId, lib)
       IN IF r.thrown THEN NotFound
          ELSE IF r.hit.found THEN r.hit
          ELSE SearchFiles(st, Tail(metas), deviceId, lib)
SearchDeviceInStorage(st, deviceId, lib) ==
  SearchFiles(st, SelectSeq(GetAllMetadata(st), LAMBDA f : f.isDeviceInfo), deviceId, lib)

\* the write-back clearing a field the lookup has not found
WriteFieldOrClear(data, label, field) ==
  ObjSet(data, Decorated(label), IF field # None THEN field[1] ELSE << >>)

\* if (details.x) data[decorated label] = details.x
WriteField(data, label, field) ==
  IF field # None /\ Len(field[1]) > 0 THEN ObjSet(data, Decorated(label), field[1]) ELSE data
Enrich(data, details) ==
  IF ~details.found THEN data
  ELSE WriteField(WriteField(WriteField(data, DeviceNameLabel, details.deviceName),
                             ModelLabel, details.model),
                  MakerLabel, details.manufacturer)

\* ===================================================== the session's state
VARIABLES
  store,           \* the records of the IndexedDB object store
  libs,            \* which of window.XLSX, mammoth, PizZip/docxtemplater are loaded
  fileMeta,        \* the id of the target file of the detail view, or null
  fileData,        \* the loaded target record, or null
  keyValuePairs,   \* the identifier pairs
  mergeStatus,     \* idle, processing, success or error
  mergeMessage,
  dataFileName,    \* the name of the active data file, or null
  resultFile,      \* the result document, or null
  savedDataFiles,  \* the listed data files of the target
  tasks,           \* the asynchronous operations in flight, with their closures
  customCategories, \* App: the user's category labels
  filterType,      \* App: the filter of the file list
  steps            \* the number of user actions so far

vars == <<store, libs, fileMeta, fileData, keyValuePairs, mergeStatus, mergeMessage,
          dataFileName, resultFile, savedDataFiles, tasks, customCategories, filterType,
          steps>>

\* the filter 'ALL'
AllFilter == <<"A", "L", "L">>

\* blobs
Blob(kind, text) ==
  [kind |-> kind, text |-> text, rows |-> << >>, tables |-> << >>,
   json |-> "", items |-> << >>, props |-> << >>]

\* messages: the literal, and the interpolated number or string
Msg(text) == [text |-> text, n |-> 0, arg |-> << >>]
MsgN(text, n) == [text |-> text, n |-> n, arg |-> << >>]
MsgS(text, arg) == [text |-> text, n |-> 0, arg |-> arg]

\* an operation in flight: where it waits (pc) and what its closure holds
BlankTask ==
  [kind |-> "", pc |-> "", handler |-> "", tgt |-> 0, fid |-> 0, file |-> None,
   doc |-> None, pairs |-> << >>, saved |-> << >>, dfn |-> None, data |-> << >>]

Spawn(t) == tasks (+) SetToBag({t})
Finish(t) == tasks (-) SetToBag({t})
Become(t, u) == (tasks (-) SetToBag({t})) (+) SetToBag({u})
InFlight == BagToSet(tasks)
NumTasks == BagCardinality(tasks)

\* crypto.randomUUID(): identifiers distinct from every identifier still held
HeldIds == UNION {{t.pairs[i].id : i \in 1..Len(t.pairs)} : t \in InFlight}
UsedIds == {keyValuePairs[i].id : i \in 1..Len(keyValuePairs)} \cup HeldIds

\* a user action counts against the length of the run; a completion does not;
\* no handler of the detail view touches the category list or the filter
UserTurn ==
  steps < MaxUserSteps /\ steps' = steps + 1 /\ UNCHANGED <<customCategories, filterType>>
AsyncTurn == UNCHANGED <<steps, customCategories, filterType>>
RECURSIVE NthFree(_, _)
NthFree(used, n) ==
  LET m == CHOOSE k \in 1..(Cardinality(used) + 1) :
             k \notin used /\ \A j \in 1..(k - 1) : j \in used
  IN IF n <= 1 THEN m ELSE NthFree(used \cup {m}, n - 1)

\* ------------------------------------------------------------------ inputs
TxtName == <<"t", ".", "t", "x", "t">>
DocxName == <<"r", ".", "d", "o", "c", "x">>
DataName == <<"d", ".", "t", "x", "t">>
EmptyName == <<"e", ".", "t", "x", "t">>
BinName == <<"x", ".", "b", "i", "n">>
DeviceName == <<"n", ".", "t", "x", "t">>

StoredRecord(id, name, type, lastModified, content, isData, parent) ==
  [id |-> id, name |-> name, type |-> type, lastModified |-> lastModified,
   content |-> content, category |-> None, isDeviceInfo |-> FALSE,
   isDataMergeFile |-> isData, parentFileId |-> parent]

TextTarget == StoredRecord(1, TxtName, "text/plain", 1, Blob("text", <<"a", "b", "a">>), FALSE, None)
DocxTexts == {<<"$", "%", "a", "%", "$">>, <<"$", "%", "a">>}
DocxTarget(text) == StoredRecord(1, DocxName, DocxMime, 1, Blob("docx", text), FALSE, None)

\* the File objects the user may pick in the upload input
UploadFiles ==
  {[name |-> DataName, type |-> "text/plain", lastModified |-> 2,
    content |-> Blob("text", <<"a", ":", "x">>)],
   [name |-> EmptyName, type |-> "text/plain", lastModified |-> 2,
    content |-> Blob("text", <<" ">>)],
   [name |-> BinName, type |-> "", lastModified |-> 2,
    content |-> Blob("text", <<"a", ":", "x">>)],
   [name |-> DeviceName, type |-> "text/plain", lastModified |-> 2,
    content |-> Blob("text", DeviceIdLabel \o <<":", "7">>)]}

\* what the user may type into a pair's field
EditTexts == {<<"b">>}

AllLibs == [XLSX |-> TRUE, mammoth |-> TRUE, templater |-> TRUE]
NoMammoth == [XLSX |-> TRUE, mammoth |-> FALSE, templater |-> TRUE]
NoLibs == [XLSX |-> FALSE, mammoth |-> FALSE, templater |-> FALSE]

\* a data file saved for the text target in an earlier session
SavedData ==
  StoredRecord(2, DataName, "text/plain", 2, Blob("text", <<"a", ":", "x">>), TRUE, Some(1))

\* a second file of the vault, which the detail view can be switched to
OtherName == <<"u", ".", "t", "x", "t">>
OtherTarget == StoredRecord(3, OtherName, "text/plain", 1, Blob("text", <<"b">>), FALSE, None)

\* the vault and the page a run starts from: the target file, with or without
\* a saved data file and a second file, and the libraries the page has loaded
Configs ==
  {[store |-> {TextTarget}, libs |-> AllLibs],
   [store |-> {TextTarget, SavedData}, libs |-> AllLibs],
   [store |-> {TextTarget, SavedData, OtherTarget}, libs |-> AllLibs]}
    \cup {[store |-> {DocxTarget(text)}, libs |-> AllLibs] : text \in DocxTexts}
    \cup {[store |-> {DocxTarget(<<"$", "%", "a", "%", "$">>)}, libs |-> l] :
            l \in {NoMammoth, NoLibs}}

Init ==
  /\ \E c \in Configs : store = c.store /\ libs = c.libs
  /\ fileMeta = None
  /\ fileData = None
  /\ keyValuePairs = << >>
  /\ mergeStatus = "idle"
  /\ mergeMessage = Msg("")
  /\ dataFileName = None
  /\ resultFile = None
  /\ savedDataFiles = << >>
  /\ tasks = EmptyBag
  /\ customCategories = << >>
  /\ filterType = AllFilter
  /\ steps = 0

\* handleError without its last line: the pairs stay
HandleErrorKeepingPairs(msg) ==
  /\ mergeStatus' = "error"
  /\ mergeMessage' = Msg(msg)
  /\ UNCHANGED keyValuePairs

\* ------------------------------------------------ the data-file load chain
\* handleError
HandleError(msg) ==
  /\ mergeStatus' = "error"
  /\ mergeMessage' = Msg(msg)
  /\ keyValuePairs' = << >>

\* the pairs processData builds from the entries of data
NewPairs(data) ==
  LET es == ObjEntries(data)
  IN [i \in 1..Len(es) |->
        [id |-> NthFree(HeldIds, i), key |-> es[i].key, value |-> es[i].value,
         status |-> "unset"]]

\* the tail of processData ending a load with pairs in success
EmitPairsAsSuccess(data) ==
  LET pairs == NewPairs(data)
  IN IF Len(pairs) > 0
     THEN /\ keyValuePairs' = pairs
          /\ mergeStatus' = "success"
          /\ mergeMessage' = MsgN("Loaded identifiers.", Len(pairs))
     ELSE /\ keyValuePairs' = << >>
          /\ mergeStatus' = "error"
          /\ mergeMessage' = Msg("No identifiers found.")

\* the tail of processData: the pairs replace the list
EmitPairs(data) ==
  LET pairs == NewPairs(data)
  IN IF Len(pairs) > 0
     THEN /\ keyValuePairs' = pairs
          /\ mergeStatus' = "idle"
          /\ mergeMessage' = MsgN("Loaded identifiers.", Len(pairs))
     ELSE /\ keyValuePairs' = << >>
          /\ mergeStatus' = "error"
          /\ mergeMessage' = Msg("No identifiers found.")

\* processData up to its await: with a device id it waits for the lookup
ProcessData(t, data) ==
  LET deviceId == DeviceIdOf(data)
  IN IF Len(deviceId) > 0
     THEN /\ mergeMessage' = MsgS("Found Device ID. Searching details...", deviceId)
          /\ tasks' = Become(t, [t EXCEPT !.pc = "search", !.data = data])
          /\ UNCHANGED <<keyValuePairs, mergeStatus>>
     ELSE /\ EmitPairs(data)
          /\ tasks' = Finish(t)

JsonExt == <<".", "j", "s", "o", "n">>
TxtExt == <<".", "t", "x", "t">>
CsvExt == <<".", "c", "s", "v">>

\* parseAndLoadDataFile without its tests on the extension and on the
\* libraries: every file is read as text
ParseAndLoadAsText(t, blob, name) ==
  /\ dataFileName' = Some(name)
  /\ mergeStatus' = "processing"
  /\ mergeMessage' = Msg("Parsing file...")
  /\ tasks' = Become(t, [BlankTask EXCEPT !.kind = "load", !.pc = "read",
                                          !.handler = "text", !.tgt = t.tgt,
                                          !.file = Some([name |-> name, content |-> blob])])
  /\ UNCHANGED keyValuePairs

\* parseAndLoadDataFile, called by the operation t with a blob and its name:
\* the synchronous part, up to the start of the FileReader
ParseAndLoadDataFile(t, blob, name) ==
  LET lower == ToLowerCase(name)
      reader(h) == [BlankTask EXCEPT !.kind = "load", !.pc = "read", !.handler = h,
                                     !.tgt = t.tgt,
                                     !.file = Some([name |-> name, content |-> blob])]
      start(h) == /\ mergeStatus' = "processing"
                  /\ mergeMessage' = Msg("Parsing file...")
                  /\ tasks' = Become(t, reader(h))
                  /\ UNCHANGED keyValuePairs
      fail(msg) == HandleError(msg) /\ tasks' = Finish(t)
  IN /\ dataFileName' = Some(name)
     /\ IF EndsWith(lower, JsonExt) \/ EndsWith(lower, TxtExt) \/ EndsWith(lower, CsvExt)
        THEN start("text")
        ELSE IF EndsWith(lower, XlsxExt) \/ EndsWith(lower, XlsExt)
        THEN (IF ~libs.XLSX THEN fail("Excel parser library not loaded. Please refresh.")
              ELSE start("excel"))
        ELSE IF EndsWith(lower, DocxExt) \/ EndsWith(lower, DocExt)
        THEN (IF ~libs.mammoth THEN fail("Word parser library not loaded. Please refresh.")
              ELSE start("word"))
        ELSE fail("Unsupported file format.")

\* reader.onload of the text, Excel and Word handlers; a blob the decoder cannot
\* read makes the handler throw
ReaderLoaded(t) ==
  /\ AsyncTurn
  /\ t.kind = "load" /\ t.pc = "read"
  /\ LET blob == t.file[1].content
     IN IF t.handler = "text" THEN ProcessData(t, ParseTextBlob(blob))
        ELSE IF t.handler = "excel" /\ blob.kind = "xlsx"
        THEN ProcessData(t, ExcelMapping(<< >>, blob.rows))
        ELSE IF t.handler = "excel"
        THEN HandleError("Failed to parse Excel file.") /\ tasks' = Finish(t)
        ELSE IF blob.kind = "docx" THEN ProcessData(t, WordMapping(blob))
        ELSE HandleError("Failed to parse Word file.") /\ tasks' = Finish(t)
  /\ UNCHANGED <<store, libs, fileMeta, fileData, dataFileName, resultFile, savedDataFiles>>

\* the read fails: the FileReader has no onerror handler, nothing is called
ReaderFailed(t) ==
  /\ AsyncTurn
  /\ t.kind = "load" /\ t.pc = "read"
  /\ tasks' = Finish(t)
  /\ UNCHANGED <<store, libs, fileMeta, fileData, keyValuePairs, mergeStatus, mergeMessage,
                 dataFileName, resultFile, savedDataFiles>>

\* processData after the await of searchDeviceInStorage
SearchReturned(t) ==
  /\ AsyncTurn
  /\ t.kind = "load" /\ t.pc = "search"
  /\ EmitPairs(Enrich(t.data, SearchDeviceInStorage(store, DeviceIdOf(t.data), libs)))
  /\ tasks' = Finish(t)
  /\ UNCHANGED <<store, libs, fileMeta, fileData, dataFileName, resultFile, savedDataFiles>>

\* ------------------------------------------------------ opening and closing
\* the effect on [fileMeta] with a file: the merge state is reset, loadFullFile
\* and initDataMerge start
OpenDetail(id) ==
  /\ UserTurn
  /\ fileMeta = None
  /\ \E r \in store : r.id = id /\ ~r.isDataMergeFile
  /\ NumTasks <= MaxLeftOver
  /\ fileMeta' = Some(id)
  /\ keyValuePairs' = << >>
  /\ mergeStatus' = "idle"
  /\ mergeMessage' = Msg("")
  /\ dataFileName' = None
  /\ resultFile' = None
  /\ tasks' = tasks (+) SetToBag({[BlankTask EXCEPT !.kind = "full", !.pc = "get", !.tgt = id]})
                    (+) SetToBag({[BlankTask EXCEPT !.kind = "init", !.pc = "list", !.tgt = id]})
  /\ UNCHANGED <<store, libs, fileData, savedDataFiles>>

\* onClose, and the effect on [fileMeta] without a file
CloseDetail ==
  /\ UserTurn
  /\ fileMeta # None
  /\ fileMeta' = None
  /\ fileData' = None
  /\ UNCHANGED <<store, libs, keyValuePairs, mergeStatus, mergeMessage, dataFileName,
                 resultFile, savedDataFiles, tasks>>

\* loadFullFile after its await; ok: getFile resolved
FullLoaded(t, ok) ==
  /\ AsyncTurn
  /\ t.kind = "full"
  /\ fileData' = IF ok /\ GetFile(store, t.tgt) # None THEN GetFile(store, t.tgt) ELSE fileData
  /\ tasks' = Finish(t)
  /\ UNCHANGED <<store, libs, fileMeta, keyValuePairs, mergeStatus, mergeMessage,
                 dataFileName, resultFile, savedDataFiles>>

\* initDataMerge after getAllMetadata; a rejection is only logged
InitListed(t, ok) ==
  /\ AsyncTurn
  /\ t.kind = "init" /\ t.pc = "list"
  /\ LET dataFiles == DataFilesOf(store, t.tgt)
     IN IF ok /\ Len(dataFiles) > 0
        THEN /\ savedDataFiles' = dataFiles
             /\ mergeStatus' = "processing"
             /\ mergeMessage' = Msg("Loading default data file...")
             /\ tasks' = Become(t, [t EXCEPT !.pc = "get", !.fid = dataFiles[1].id])
        ELSE /\ savedDataFiles' = IF ok THEN dataFiles ELSE savedDataFiles
             /\ tasks' = Finish(t)
             /\ UNCHANGED <<mergeStatus, mergeMessage>>
  /\ UNCHANGED <<store, libs, fileMeta, fileData, keyValuePairs, dataFileName, resultFile>>

\* initDataMerge after getFile: an absent file and a rejection set nothing
InitFetched(t, ok) ==
  /\ AsyncTurn
  /\ t.kind = "init" /\ t.pc = "get"
  /\ LET file == GetFile(store, t.fid)
     IN IF ok /\ file # None
        THEN ParseAndLoadDataFile(t, file[1].content, file[1].name)
        ELSE /\ tasks' = Finish(t)
             /\ UNCHANGED <<keyValuePairs, mergeStatus, mergeMessage, dataFileName>>
  /\ UNCHANGED <<store, libs, fileMeta, fileData, resultFile, savedDataFiles>>

\* ------------------------------------------------- the saved data files
\* handleSelectSavedFile up to its await
SelectSavedFile(i) ==
  /\ UserTurn
  /\ fileMeta # None
  /\ i \in 1..Len(savedDataFiles)
  /\ NumTasks < MaxTasks
  /\ mergeStatus' = "processing"
  /\ mergeMessage' = Msg("Loading file...")
  /\ tasks' = Spawn([BlankTask EXCEPT !.kind = "select", !.pc = "get",
                                      !.tgt = fileMeta[1], !.fid = savedDataFiles[i].id])
  /\ UNCHANGED <<store, libs, fileMeta, fileData, keyValuePairs, dataFileName, resultFile,
                 savedDataFiles>>

\* handleSelectSavedFile after getFile
SelectFetched(t, ok) ==
  /\ AsyncTurn
  /\ t.kind = "select"
  /\ LET file == GetFile(store, t.fid)
     IN IF ~ok THEN /\ HandleError("Failed to load saved file.")
                    /\ tasks' = Finish(t)
                    /\ UNCHANGED dataFileName
        ELSE IF file = None THEN /\ HandleError("File not found in storage.")
                                 /\ tasks' = Finish(t)
                                 /\ UNCHANGED dataFileName
        ELSE ParseAndLoadDataFile(t, file[1].content, file[1].name)
  /\ UNCHANGED <<store, libs, fileMeta, fileData, resultFile, savedDataFiles>>

\* handleDataFileUpload up to the await of saveFile
UploadDataFile(file) ==
  /\ UserTurn
  /\ fileMeta # None
  /\ NumTasks < MaxTasks
  /\ Cardinality(store) + Cardinality({t \in InFlight : t.kind = "upload" /\ t.pc = "save"})
       < MaxStore
  /\ tasks' = Spawn([BlankTask EXCEPT !.kind = "upload", !.pc = "save",
                                      !.tgt = fileMeta[1], !.file = Some(file)])
  /\ UNCHANGED <<store, libs, fileMeta, fileData, keyValuePairs, mergeStatus, mergeMessage,
                 dataFileName, resultFile, savedDataFiles>>

\* saveFile(file, undefined, false, true, fileMeta.id) resolves: the record is
\* added under a new random id
UploadSaved(t, id) ==
  /\ AsyncTurn
  /\ t.kind = "upload" /\ t.pc = "save"
  /\ id \in 1..MaxStore
  /\ \A r \in store : r.id # id
  /\ store' = store \cup {StoredRecord(id, t.file[1].name, t.file[1].type,
                                       t.file[1].lastModified, t.file[1].content,
                                       TRUE, Some(t.tgt))}
  /\ tasks' = Become(t, [t EXCEPT !.pc = "list"])
  /\ UNCHANGED <<libs, fileMeta, fileData, keyValuePairs, mergeStatus, mergeMessage,
                 dataFileName, resultFile, savedDataFiles>>

\* saveFile rejects: the catch logs, the list is not refreshed, and the file
\* is parsed all the same
UploadSaveFailed(t) ==
  /\ AsyncTurn
  /\ t.kind = "upload" /\ t.pc = "save"
  /\ ParseAndLoadDataFile(t, t.file[1].content, t.file[1].name)
  /\ UNCHANGED <<store, libs, fileMeta, fileData, resultFile, savedDataFiles>>

\* loadSavedDataFiles returns (ok: its getAllMetadata resolved), then the file
\* is parsed
UploadListed(t, ok) ==
  /\ AsyncTurn
  /\ t.kind = "upload" /\ t.pc = "list"
  /\ savedDataFiles' = IF ok THEN DataFilesOf(store, t.tgt) ELSE savedDataFiles
  /\ ParseAndLoadDataFile(t, t.file[1].content, t.file[1].name)
  /\ UNCHANGED <<store, libs, fileMeta, fileData, resultFile>>

\* handleDeleteSavedFile up to the await of deleteFile; the closure holds the
\* savedDataFiles and dataFileName of the render that was clicked
DeleteSavedFile(i) ==
  /\ UserTurn
  /\ fileMeta # None
  /\ i \in 1..Len(savedDataFiles)
  /\ NumTasks < MaxTasks
  /\ tasks' = Spawn([BlankTask EXCEPT !.kind = "delete", !.pc = "delete",
                                      !.tgt = fileMeta[1], !.fid = savedDataFiles[i].id,
                                      !.saved = savedDataFiles, !.dfn = dataFileName])
  /\ UNCHANGED <<store, libs, fileMeta, fileData, keyValuePairs, mergeStatus, mergeMessage,
                 dataFileName, resultFile, savedDataFiles>>

\* deleteFile resolves (ok) or rejects
DeleteDone(t, ok) ==
  /\ AsyncTurn
  /\ t.kind = "delete" /\ t.pc = "delete"
  /\ store' = IF ok THEN {r \in store : r.id # t.fid} ELSE store
  /\ tasks' = IF ok THEN Become(t, [t EXCEPT !.pc = "list"]) ELSE Finish(t)
  /\ UNCHANGED <<libs, fileMeta, fileData, keyValuePairs, mergeStatus, mergeMessage,
                 dataFileName, resultFile, savedDataFiles>>

\* savedDataFiles.find(f => f.id === id)?.name === dataFileName, in the closure
DeletedIsActive(t) ==
  \E i \in 1..Len(t.saved) : t.saved[i].id = t.fid /\ Some(t.saved[i].name) = t.dfn

\* handleDeleteSavedFile after loadSavedDataFiles
DeleteListed(t, ok) ==
  /\ AsyncTurn
  /\ t.kind = "delete" /\ t.pc = "list"
  /\ savedDataFiles' = IF ok THEN DataFilesOf(store, t.tgt) ELSE savedDataFiles
  /\ IF DeletedIsActive(t)
     THEN dataFileName' = None /\ keyValuePairs' = << >>
     ELSE UNCHANGED <<dataFileName, keyValuePairs>>
  /\ tasks' = Finish(t)
  /\ UNCHANGED <<store, libs, fileMeta, fileData, mergeStatus, mergeMessage, resultFile>>

\* the X button resetting the status as well
ClearActiveAndIdle ==
  /\ UserTurn
  /\ fileMeta # None
  /\ dataFileName # None /\ Len(dataFileName[1]) > 0
  /\ dataFileName' = None
  /\ keyValuePairs' = << >>
  /\ mergeStatus' = "idle"
  /\ UNCHANGED <<store, libs, fileMeta, fileData, mergeMessage, resultFile,
                 savedDataFiles, tasks>>

\* the X button of the active-file indicator
ClearActiveDataFile ==
  /\ UserTurn
  /\ fileMeta # None
  /\ dataFileName # None /\ Len(dataFileName[1]) > 0
  /\ dataFileName' = None
  /\ keyValuePairs' = << >>
  /\ UNCHANGED <<store, libs, fileMeta, fileData, mergeStatus, mergeMessage, resultFile,
                 savedDataFiles, tasks>>

\* ---------------------------------------------------------- editing pairs
\* handlePairChange writing the field and leaving the status of the pair
HandlePairChangeKeepingStatus(id, field, newValue) ==
  /\ UserTurn
  /\ fileMeta # None
  /\ \E i \in 1..Len(keyValuePairs) : keyValuePairs[i].id = id
  /\ keyValuePairs' =
       [i \in 1..Len(keyValuePairs) |->
          IF keyValuePairs[i].id = id
          THEN [keyValuePairs[i] EXCEPT ![field] = newValue]
          ELSE keyValuePairs[i]]
  /\ UNCHANGED <<store, libs, fileMeta, fileData, mergeStatus, mergeMessage, dataFileName,
                 resultFile, savedDataFiles, tasks>>

\* handlePairChange
HandlePairChange(id, field, newValue) ==
  /\ UserTurn
  /\ fileMeta # None
  /\ \E i \in 1..Len(keyValuePairs) : keyValuePairs[i].id = id
  /\ keyValuePairs' =
       [i \in 1..Len(keyValuePairs) |->
          IF keyValuePairs[i].id = id
          THEN [keyValuePairs[i] EXCEPT ![field] = newValue, !.status = "unset"]
          ELSE keyValuePairs[i]]
  /\ UNCHANGED <<store, libs, fileMeta, fileData, mergeStatus, mergeMessage, dataFileName,
                 resultFile, savedDataFiles, tasks>>

\* removePair
RemovePair(id) ==
  /\ UserTurn
  /\ fileMeta # None
  /\ \E i \in 1..Len(keyValuePairs) : keyValuePairs[i].id = id
  /\ keyValuePairs' = SelectSeq(keyValuePairs, LAMBDA p : p.id # id)
  /\ UNCHANGED <<store, libs, fileMeta, fileData, mergeStatus, mergeMessage, dataFileName,
                 resultFile, savedDataFiles, tasks>>

\* addPair
AddPair ==
  /\ UserTurn
  /\ fileMeta # None
  /\ Len(keyValuePairs) < MaxPairs
  /\ keyValuePairs' = Append(keyValuePairs,
                             [id |-> NthFree(UsedIds, 1), key |-> << >>, value |-> << >>,
                              status |-> "unset"])
  /\ UNCHANGED <<store, libs, fileMeta, fileData, mergeStatus, mergeMessage, dataFileName,
                 resultFile, savedDataFiles, tasks>>

\* ------------------------------------------------------------ handleMerge
\* the catch block of handleMerge leaving the status idle
MergeFailedToIdle ==
  /\ mergeStatus' = "idle"
  /\ mergeMessage' = Msg("Failed to process file. Ensure identifiers match.")

\* the catch block of handleMerge
MergeFailed ==
  /\ mergeStatus' = "error"
  /\ mergeMessage' = Msg("Failed to process file. Ensure identifiers match.")

\* new File([...], outputName, {type})
ResultOf(doc, type, content) ==
  Some([name |-> OutputName(doc.name), type |-> type, content |-> content])

\* the text branch after content.text() has resolved
TextBranch(doc, pairs) ==
  LET r == TextMerge(doc.content.text, pairs)
  IN [pairs |-> r.pairs,
      result |-> ResultOf(doc, doc.type, Blob("text", r.content)),
      message |-> MsgN("Success! Replaced instances.", r.count)]

\* handleMerge reading the previous result document, when there is one, in
\* place of the content of the target
HandleMergeOnResult ==
  /\ UserTurn
  /\ fileMeta # None
  /\ mergeStatus # "processing"
  /\ Len(keyValuePairs) > 0
  /\ fileData # None
  /\ NumTasks < MaxTasks
  /\ resultFile' = None
  /\ IF IsDocxTarget(fileData[1]) /\ ~libs.templater
     THEN /\ MergeFailed
          /\ UNCHANGED tasks
     ELSE /\ mergeStatus' = "processing"
          /\ tasks' = Spawn([BlankTask EXCEPT
                               !.kind = "merge",
                               !.pc = IF IsDocxTarget(fileData[1]) THEN "buffer" ELSE "text",
                               !.tgt = fileMeta[1],
                               !.doc = IF resultFile = None THEN fileData
                                       ELSE Some([fileData[1] EXCEPT
                                                    !.content = resultFile[1].content]),
                               !.pairs = keyValuePairs])
          /\ UNCHANGED mergeMessage
  /\ UNCHANGED <<store, libs, fileMeta, fileData, keyValuePairs, dataFileName, savedDataFiles>>

\* handleMerge up to its first await. The button is disabled while the status
\* is processing or the list is empty; without fileData the handler returns.
HandleMerge ==
  /\ UserTurn
  /\ fileMeta # None
  /\ mergeStatus # "processing"
  /\ Len(keyValuePairs) > 0
  /\ fileData # None
  /\ NumTasks < MaxTasks
  /\ resultFile' = None
  /\ IF IsDocxTarget(fileData[1]) /\ ~libs.templater
     THEN /\ MergeFailed
          /\ UNCHANGED tasks
     ELSE /\ mergeStatus' = "processing"
          /\ tasks' = Spawn([BlankTask EXCEPT
                               !.kind = "merge",
                               !.pc = IF IsDocxTarget(fileData[1]) THEN "buffer" ELSE "text",
                               !.tgt = fileMeta[1], !.doc = fileData,
                               !.pairs = keyValuePairs])
          /\ UNCHANGED mergeMessage
  /\ UNCHANGED <<store, libs, fileMeta, fileData, keyValuePairs, dataFileName, savedDataFiles>>

\* the text branch: content.text() resolves (ok) or rejects
MergeTextDone(t, ok) ==
  /\ AsyncTurn
  /\ t.kind = "merge" /\ t.pc = "text"
  /\ IF ok
     THEN LET r == TextBranch(t.doc[1], t.pairs)
          IN /\ keyValuePairs' = r.pairs
             /\ resultFile' = r.result
             /\ mergeStatus' = "success"
             /\ mergeMessage' = r.message
     ELSE /\ MergeFailed
          /\ UNCHANGED <<keyValuePairs, resultFile>>
  /\ tasks' = Finish(t)
  /\ UNCHANGED <<store, libs, fileMeta, fileData, dataFileName, savedDataFiles>>

\* the DOCX branch from the construction of the data object to the end: the
\* render either yields the result file or throws into the catch block
DocxRenderStep(t) ==
  LET out == DocxRender(t.doc[1].content, DocxData(t.pairs))
  IN IF out.ok
     THEN /\ resultFile' = ResultOf(t.doc[1], DocxMime, Blob("docx", out.text))
          /\ mergeStatus' = "success"
          /\ mergeMessage' = Msg("Processed successfully! Ready to download.")
     ELSE /\ MergeFailed
          /\ UNCHANGED resultFile

\* the DOCX branch: content.arrayBuffer() resolves (ok) or rejects; with
\* mammoth the raw text is extracted next, without it the render follows
MergeBufferDone(t, ok) ==
  /\ AsyncTurn
  /\ t.kind = "merge" /\ t.pc = "buffer"
  /\ IF ~ok
     THEN /\ MergeFailed
          /\ tasks' = Finish(t)
          /\ UNCHANGED resultFile
     ELSE IF libs.mammoth
     THEN /\ tasks' = Become(t, [t EXCEPT !.pc = "raw"])
          /\ UNCHANGED <<mergeStatus, mergeMessage, resultFile>>
     ELSE /\ DocxRenderStep(t)
          /\ tasks' = Finish(t)
  /\ UNCHANGED <<store, libs, fileMeta, fileData, keyValuePairs, dataFileName, savedDataFiles>>

\* the DOCX branch after mammoth.extractRawText: it resolves for a DOCX
\* container and then the statuses are set; its rejection is only logged.
\* The render follows in the same turn.
MergeRawDone(t) ==
  /\ AsyncTurn
  /\ t.kind = "merge" /\ t.pc = "raw"
  /\ keyValuePairs' = IF t.doc[1].content.kind = "docx"
                      THEN DocxStatuses(t.pairs, t.doc[1].content.text)
                      ELSE keyValuePairs
  /\ DocxRenderStep(t)
  /\ tasks' = Finish(t)
  /\ UNCHANGED <<store, libs, fileMeta, fileData, dataFileName, savedDataFiles>>

\* the Discard button resetting the status as well
DiscardResultToIdle ==
  /\ UserTurn
  /\ fileMeta # None
  /\ resultFile # None
  /\ resultFile' = None
  /\ mergeStatus' = "idle"
  /\ UNCHANGED <<store, libs, fileMeta, fileData, keyValuePairs, mergeMessage,
                 dataFileName, savedDataFiles, tasks>>

\* the Discard and Return to Original button
DiscardResult ==
  /\ UserTurn
  /\ fileMeta # None
  /\ resultFile # None
  /\ resultFile' = None
  /\ UNCHANGED <<store, libs, fileMeta, fileData, keyValuePairs, mergeStatus, mergeMessage,
                 dataFileName, savedDataFiles, tasks>>

\* ------------------------------------------------------------ the system
\* what the user does
UserStep ==
  \/ \E r \in store : OpenDetail(r.id)
  \/ CloseDetail
  \/ \E i \in 1..Len(savedDataFiles) : SelectSavedFile(i)
  \/ \E file \in UploadFiles : UploadDataFile(file)
  \/ \E i \in 1..Len(savedDataFiles) : DeleteSavedFile(i)
  \/ ClearActiveDataFile
  \/ \E i \in 1..Len(keyValuePairs) : \E field \in {"key", "value"} : \E v \in EditTexts :
       HandlePairChange(keyValuePairs[i].id, field, v)
  \/ \E i \in 1..Len(keyValuePairs) : RemovePair(keyValuePairs[i].id)
  \/ AddPair
  \/ HandleMerge
  \/ DiscardResult

\* an awaited promise settles, a FileReader fires
AsyncStep ==
  \/ \E t \in InFlight : \E ok \in BOOLEAN : FullLoaded(t, ok)
  \/ \E t \in InFlight : \E ok \in BOOLEAN : InitListed(t, ok)
  \/ \E t \in InFlight : \E ok \in BOOLEAN : InitFetched(t, ok)
  \/ \E t \in InFlight : \E ok \in BOOLEAN : SelectFetched(t, ok)
  \/ \E t \in InFlight : \E id \in 1..MaxStore : UploadSaved(t, id)
  \/ \E t \in InFlight : UploadSaveFailed(t)
  \/ \E t \in InFlight : \E ok \in BOOLEAN : UploadListed(t, ok)
  \/ \E t \in InFlight : \E ok \in BOOLEAN : DeleteDone(t, ok)
  \/ \E t \in InFlight : \E ok \in BOOLEAN : DeleteListed(t, ok)
  \/ \E t \in InFlight : ReaderLoaded(t)
  \/ \E t \in InFlight : ReaderFailed(t)
  \/ \E t \in InFlight : SearchReturned(t)
  \/ \E t \in InFlight : \E ok \in BOOLEAN : MergeTextDone(t, ok)
  \/ \E t \in InFlight : \E ok \in BOOLEAN : MergeBufferDone(t, ok)
  \/ \E t \in InFlight : MergeRawDone(t)

Next == UserStep \/ AsyncStep

Spec == Init /\ [][Next]_vars

\* every storage call and every blob read settles: an operation in flight
\* takes its next step
FairSpec == Spec /\ WF_vars(AsyncStep)

\* ---------------------------------------------------- handleMerge on its own
\* The plain-text branch of handleMerge applied to a document and a pair list:
\* the detail view of a text target is open, its content is loaded, and the
\* list holds the pairs a load or the user's edits have left.
MergeDocs == {<<"a">>, <<"a", "b">>, <<"b", "a", "b">>, <<"a", "a">>, <<"b">>, <<"a", ".", "b">>}
MergeKeys == {<< >>, <<"a">>, <<"b">>}
MergeValues == {<< >>, <<"a">>, <<"b">>}
MergeTarget(text) ==
  StoredRecord(1, TxtName, "text/plain", 1, Blob("text", text), FALSE, None)
MergePairLists ==
  UNION {{[i \in 1..n |-> [id |-> i, key |-> ks[i], value |-> vs[i], status |-> "unset"]] :
            ks \in [1..n -> MergeKeys], vs \in [1..n -> MergeValues]} : n \in 1..MaxPairs}

\* single pairs whose value holds a dollar sign, and a key that is a regular
\* expression metacharacter
DollarValues == {<<"$", "&">>, <<"$", "$">>, <<"$", "1">>, <<"b", "$">>}
DollarPairLists ==
  {<<[id |-> 1, key |-> k, value |-> v, status |-> "unset"]>> :
     k \in {<<"a">>, <<".">>}, v \in DollarValues \cup {<<"b">>}}

\* the names of the target: with an extension, without one, and with an
\* extension that holds a character outside [\w\d]
MergeNames == {TxtName, <<"t">>, <<"t", ".", "a", "-", "b">>}

InitMerge ==
  /\ \E text \in MergeDocs : \E name \in MergeNames :
       /\ store = {[MergeTarget(text) EXCEPT !.name = name]}
       /\ fileData = Some([MergeTarget(text) EXCEPT !.name = name])
  /\ libs = AllLibs
  /\ fileMeta = Some(1)
  /\ keyValuePairs \in MergePairLists \cup DollarPairLists
  /\ mergeStatus = "idle"
  /\ mergeMessage = Msg("")
  /\ dataFileName = None
  /\ resultFile = None
  /\ savedDataFiles = << >>
  /\ tasks = EmptyBag
  /\ customCategories = << >>
  /\ filterType = AllFilter
  /\ steps = 0

NextMerge ==
  \/ HandleMerge
  \/ \E t \in InFlight : \E ok \in BOOLEAN : MergeTextDone(t, ok)

SpecMerge == InitMerge /\ [][NextMerge]_vars

\* ------------------------------------------------- data-file loads on their own
\* The detail view is opened on a text target of a vault that holds one or two
\* data files saved for it in earlier sessions, and device-info documents; the
\* data file is loaded by initDataMerge and again by handleSelectSavedFile, and
\* saved data files are deleted.
XlsxName == <<"d", ".", "x", "l", "s", "x">>
WordName == <<"d", ".", "d", "o", "c", "x">>
UpperName == <<"D", ".", "T", "X", "T">>
InfoName == <<"i", ".", "x", "l", "s", "x">>
InfoWordName == <<"i", ".", "d", "o", "c">>

\* the texts of the data files: delimited lines, lines split on white space,
\* keys that are array indices, a blank file
LoadTexts ==
  {<<"A", ":", "1", "\n", "B", "=", "2", "\n", "C", ",", "3">>,
   <<"a", ":", ":", "1">>,
   <<"a", "\t", "b", "\t", "c">>,
   <<"a", " ", " ", "b", " ", "c", "\n", "d">>,
   <<":", "1">>,
   <<"2", ":", "x", "\n", "1", ":", "y">>,
   <<" ", "\n">>}

\* the texts with a device id: the bare label, the decorated label, the label
\* with one side of the decoration, and a decorated field beside the id
DeviceTexts ==
  {DeviceIdLabel \o <<":", "7">>,
   Decorated(DeviceIdLabel) \o <<"=", "7">>,
   Dollar \o DeviceIdLabel \o <<":", "7">>,
   DeviceIdLabel \o <<":", "7", "\n">> \o Decorated(ModelLabel) \o <<":", "o">>}

Attachment(id, name, lastModified, content) ==
  StoredRecord(id, name, "", lastModified, content, TRUE, Some(1))

\* JSON.parse results: an object with an empty key and a number, an array
JsonBlobs ==
  {[Blob("json", << >>) EXCEPT
      !.json = "object",
      !.props = <<[key |-> << >>, str |-> TRUE, value |-> <<"v">>],
                  [key |-> <<"Y">>, str |-> FALSE, value |-> <<"5">>],
                  [key |-> <<"X">>, str |-> TRUE, value |-> <<"9">>]>>],
   [Blob("json", << >>) EXCEPT
      !.json = "array",
      !.items = <<[key |-> Some(<<"k">>), value |-> None],
                  [key |-> None, value |-> Some(<<"v">>)]>>]}

\* sheets: a plain one, one with a blank key cell, one with an absent key cell
SheetBlobs ==
  {[Blob("xlsx", << >>) EXCEPT !.rows = <<<<Some(<<"a">>), Some(<<"x">>)>>,
                                          <<Some(<<"b">>)>>>>],
   [Blob("xlsx", << >>) EXCEPT !.rows = <<<<Some(<<" ">>), Some(<<"v">>)>>,
                                          <<Some(<<"a">>), Some(<<"x">>)>>>>],
   [Blob("xlsx", << >>) EXCEPT !.rows = <<<<None, Some(<<"v">>)>>,
                                          <<Some(<<"a">>), Some(<<"x">>)>>>>]}

Td(text) == [text |-> text, th |-> FALSE]
Th(text) == [text |-> text, th |-> TRUE]

\* Word documents: a table with a blank key cell, and paragraphs only
WordBlobs ==
  {[Blob("docx", << >>) EXCEPT
      !.tables = <<<<<<Td(<<" ">>), Td(<<"v">>)>>, <<Td(<<"a">>), Td(<<"x">>)>>>>>>],
   [Blob("docx", <<"a", ":", " ", "x", "\n", "=", "v">>) EXCEPT !.tables = << >>]}

\* the data files of the target
Attachments ==
  {Attachment(2, DataName, 2, Blob("text", text)) : text \in LoadTexts}
    \cup {Attachment(2, UpperName, 2, Blob("text", <<"A", ":", "1", "\n", "B", "=", "2", "\n", "C", ",", "3">>))}
    \cup {Attachment(2, DataName, 2, blob) : blob \in JsonBlobs}
    \cup {Attachment(2, XlsxName, 2, blob) : blob \in SheetBlobs}
    \cup {Attachment(2, WordName, 2, blob) : blob \in WordBlobs}
    \cup {Attachment(2, BinName, 2, Blob("text", <<"a", ":", "x">>))}

\* device-info documents: a sheet with every field, a sheet without the model
\* column and with an empty maker, a sheet without the device, a Word table
DeviceInfo(name, content) ==
  [StoredRecord(3, name, "", 1, content, FALSE, None) EXCEPT !.isDeviceInfo = TRUE]
InfoHeader ==
  <<Some(DeviceIdLabel), Some(DeviceNameLabel), Some(ModelLabel), Some(MakerLabel)>>
DeviceInfos ==
  {DeviceInfo(InfoName, [Blob("xlsx", << >>) EXCEPT
     !.rows = <<InfoHeader,
                <<Some(<<"7">>), Some(<<"n">>), Some(<<"m">>), Some(<<"k">>)>>>>]),
   DeviceInfo(InfoName, [Blob("xlsx", << >>) EXCEPT
     !.rows = <<<<Some(DeviceIdLabel), Some(DeviceNameLabel), Some(MakerLabel)>>,
                <<Some(<<"7">>), Some(<<"n">>), None>>>>]),
   DeviceInfo(InfoName, [Blob("xlsx", << >>) EXCEPT
     !.rows = <<InfoHeader,
                <<Some(<<"8">>), Some(<<"n">>), Some(<<"m">>), Some(<<"k">>)>>>>]),
   DeviceInfo(InfoWordName, [Blob("docx", << >>) EXCEPT
     !.tables = <<<<<<Th(DeviceIdLabel), Th(ModelLabel)>>,
                    <<Td(<<"7">>), Td(<<"m">>)>>>>>>])}

\* sheets of device-info documents: the device in a row with a padded id and
\* no field column, the device with other fields, the device in two rows,
\* another device whose id holds the id, and a file that is no workbook
SheetOf(rows) == [Blob("xlsx", << >>) EXCEPT !.rows = rows]
BareSheet == SheetOf(<<<<Some(DeviceIdLabel), Some(<<"z">>)>>,
                       <<Some(<<" ", "7", " ">>), Some(<<"q">>)>>>>)
OtherSheet == SheetOf(<<InfoHeader,
                        <<Some(<<"7">>), Some(<<"p">>), Some(<<"r">>), Some(<<"s">>)>>>>)
TwoRowSheet == SheetOf(<<InfoHeader,
                         <<Some(<<"8">>), Some(<<"u">>), Some(<<"u">>), Some(<<"u">>)>>,
                         <<Some(<<"7">>), Some(<<"p">>), None, None>>,
                         <<Some(<<"7">>), Some(<<"n">>), Some(<<"m">>), Some(<<"k">>)>>>>)
LongIdSheet == SheetOf(<<InfoHeader,
                         <<Some(<<"7", "7">>), Some(<<"u">>), Some(<<"u">>), Some(<<"u">>)>>>>)
FullSheet == SheetOf(<<InfoHeader,
                       <<Some(<<"7">>), Some(<<"n">>), Some(<<"m">>), Some(<<"k">>)>>>>)
NoWorkbook == Blob("text", <<"x">>)

\* two device-info documents: the one listed first is the newer one, stored
\* under the later key
DeviceInfoPairs ==
  {{[DeviceInfo(InfoName, first) EXCEPT !.id = 4, !.lastModified = 2],
    DeviceInfo(InfoName, FullSheet)} :
     first \in {BareSheet, OtherSheet, TwoRowSheet, LongIdSheet, NoWorkbook}}
    \cup {{[DeviceInfo(InfoName, FullSheet) EXCEPT !.id = 4, !.lastModified = 2],
            DeviceInfo(InfoName, NoWorkbook)}}

\* two data files of the target: the first one was saved before the second
\* one, whose own lastModified is the older or the newer of the two
SavedFirst(lastModified) ==
  Attachment(2, DataName, lastModified, Blob("text", <<"a", ":", "x">>))
SavedLast(lastModified) ==
  Attachment(3, EmptyName, lastModified, Blob("text", <<"b", ":", "y">>))

LoadConfigs ==
  {[store |-> {TextTarget, a}, libs |-> AllLibs] : a \in Attachments}
    \cup {[store |-> {TextTarget, Attachment(2, DataName, 2, Blob("text", text)), d},
           libs |-> AllLibs] : text \in DeviceTexts, d \in DeviceInfos}
    \cup {[store |-> {TextTarget, Attachment(2, name, 2, Blob("text", <<"a", ":", "x">>))},
           libs |-> NoLibs] : name \in {XlsxName, WordName}}
    \cup {[store |-> {TextTarget,
                       Attachment(2, DataName, 2, Blob("text", DeviceIdLabel \o <<":", "7">>))}
                        \cup ds,
           libs |-> AllLibs] : ds \in DeviceInfoPairs}
    \cup {[store |-> {TextTarget, SavedFirst(m[1]), SavedLast(m[2])}, libs |-> AllLibs] :
            m \in {<<3, 2>>, <<2, 3>>}}
    \cup {[store |-> {TextTarget, SavedFirst(2), [SavedLast(3) EXCEPT !.name = DataName]},
           libs |-> AllLibs]}

InitLoad ==
  /\ \E c \in LoadConfigs : store = c.store /\ libs = c.libs
  /\ fileMeta = None
  /\ fileData = None
  /\ keyValuePairs = << >>
  /\ mergeStatus = "idle"
  /\ mergeMessage = Msg("")
  /\ dataFileName = None
  /\ resultFile = None
  /\ savedDataFiles = << >>
  /\ tasks = EmptyBag
  /\ customCategories = << >>
  /\ filterType = AllFilter
  /\ steps = 0

NextLoad ==
  \/ OpenDetail(1)
  \/ \E i \in 1..Len(savedDataFiles) : SelectSavedFile(i)
  \/ \E i \in 1..Len(savedDataFiles) : DeleteSavedFile(i)
  \/ \E t \in InFlight : \E ok \in BOOLEAN : FullLoaded(t, ok)
  \/ \E t \in InFlight : \E ok \in BOOLEAN : InitListed(t, ok)
  \/ \E t \in InFlight : \E ok \in BOOLEAN : InitFetched(t, ok)
  \/ \E t \in InFlight : \E ok \in BOOLEAN : SelectFetched(t, ok)
  \/ \E t \in InFlight : \E ok \in BOOLEAN : DeleteDone(t, ok)
  \/ \E t \in InFlight : \E ok \in BOOLEAN : DeleteListed(t, ok)
  \/ \E t \in InFlight : ReaderLoaded(t)
  \/ \E t \in InFlight : SearchReturned(t)

SpecLoad == InitLoad /\ [][NextLoad]_vars

\* ------------------------------------------------------ the category list
\* String.prototype.toUpperCase on the letters the model uses
UpperChar(c) ==
  CASE c = "a" -> "A" [] c = "b" -> "B" [] c = "c" -> "C" [] c = "d" -> "D"
    [] c = "e" -> "E" [] c = "g" -> "G" [] c = "i" -> "I" [] c = "m" -> "M"
    [] c = "n" -> "N" [] c = "o" -> "O" [] c = "p" -> "P" [] c = "s" -> "S"
    [] c = "t" -> "T" [] c = "u" -> "U" [] c = "v" -> "V" [] c = "y" -> "Y"
    [] OTHER -> c
ToUpperCase(s) == [i \in 1..Len(s) |-> UpperChar(s[i])]

Images == <<"I", "M", "A", "G", "E", "S">>
Documents == <<"D", "O", "C", "U", "M", "E", "N", "T", "S">>
DeviceType == <<"D", "E", "V", "I", "C", "E", " ", "T", "Y", "P", "E">>

\* what the user may type into the add-category dialog
CategoryNames ==
  {<<"a">>, <<" ", "a">>, <<"A">>, <<"b">>, <<"c">>,
   <<"I", "m", "a", "g", "e", "s">>,
   <<"d", "o", "c", "u", "m", "e", "n", "t", "s", " ">>,
   <<"D", "E", "V", "I", "C", "E", " ", "T", "Y", "P", "E">>,
   <<"D", "e", "v", "i", "c", "e", " ", "t", "y", "p", "e">>}

\* the state of the detail view, which the handlers of App leave alone
detail == <<store, libs, fileMeta, fileData, keyValuePairs, mergeStatus, mergeMessage,
            dataFileName, resultFile, savedDataFiles, tasks>>

\* handleAddCategory comparing the label as it is typed, without toUpperCase
HandleAddCategoryExact(name) ==
  LET trimmedName == Trim(name)
  IN /\ steps < MaxUserSteps /\ steps' = steps + 1
     /\ customCategories' =
          IF /\ \A i \in 1..Len(customCategories) : customCategories[i] # trimmedName
             /\ trimmedName # Images
             /\ trimmedName # Documents
             /\ trimmedName # DeviceType
          THEN Append(customCategories, trimmedName)
          ELSE customCategories
     /\ UNCHANGED <<detail, filterType>>

\* handleAddCategory
HandleAddCategory(name) ==
  LET trimmedName == Trim(name)
  IN /\ steps < MaxUserSteps /\ steps' = steps + 1
     /\ customCategories' =
          IF /\ \A i \in 1..Len(customCategories) : customCategories[i] # trimmedName
             /\ ToUpperCase(trimmedName) # Images
             /\ ToUpperCase(trimmedName) # Documents
             /\ ToUpperCase(trimmedName) # DeviceType
          THEN Append(customCategories, trimmedName)
          ELSE customCategories
     /\ UNCHANGED <<detail, filterType>>

\* handleDeleteCategory
HandleDeleteCategory(categoryToDelete) ==
  /\ steps < MaxUserSteps /\ steps' = steps + 1
  /\ customCategories' = SelectSeq(customCategories, LAMBDA c : c # categoryToDelete)
  /\ filterType' = IF filterType = categoryToDelete THEN AllFilter ELSE filterType
  /\ UNCHANGED detail

\* the buttons of the sidebar: setFilterType('ALL'), setFilterType(category)
SetFilterType(filter) ==
  /\ filterType # filter
  /\ filterType' = filter
  /\ UNCHANGED <<detail, customCategories, steps>>

\* the dialog submits a name that is not blank; the delete button and the
\* filter button belong to a listed category
NextCategories ==
  \/ \E name \in CategoryNames : Len(Trim(name)) > 0 /\ HandleAddCategory(name)
  \/ \E i \in 1..Len(customCategories) : HandleDeleteCategory(customCategories[i])
  \/ SetFilterType(AllFilter)
  \/ \E i \in 1..Len(customCategories) : SetFilterType(customCategories[i])

\* the list is read from localStorage, or is empty
InitCategories ==
  /\ store = {TextTarget}
  /\ libs = AllLibs
  /\ fileMeta = None
  /\ fileData = None
  /\ keyValuePairs = << >>
  /\ mergeStatus = "idle"
  /\ mergeMessage = Msg("")
  /\ dataFileName = None
  /\ resultFile = None
  /\ savedDataFiles = << >>
  /\ tasks = EmptyBag
  /\ customCategories \in {<< >>, <<<<"c">>, <<"b">>>>}
  /\ filterType = AllFilter
  /\ steps = 0

SpecCategories == InitCategories /\ [][NextCategories]_vars

\* --------------------------------------------- the record of the target
\* handleSaveCategory and handleDelete of the detail view over updateMetadata
\* and deleteFile of the storage service.

\* { ...file, ...updates }: the updates are the entries of an object
ApplyUpdates(file, updates) ==
  [f \in DOMAIN file |->
     LET hits == {i \in 1..Len(updates) : updates[i].key = f}
     IN IF hits = {} THEN file[f]
        ELSE updates[CHOOSE i \in hits : \A j \in hits : j <= i].value]

\* what the user may type as the device type of the file
CategoryTexts == {<<"c">>, <<"d">>}

\* handleSaveCategory up to the await of getFile inside updateMetadata
HandleSaveCategory(tempCategory) ==
  /\ UserTurn
  /\ fileMeta # None
  /\ NumTasks < MaxTasks
  /\ tasks' = Spawn([BlankTask EXCEPT
                       !.kind = "update", !.pc = "get", !.tgt = fileMeta[1],
                       !.fid = fileMeta[1],
                       !.data = <<[key |-> "category", value |-> Some(tempCategory)]>>])
  /\ UNCHANGED <<store, libs, fileMeta, fileData, keyValuePairs, mergeStatus, mergeMessage,
                 dataFileName, resultFile, savedDataFiles>>

\* updateMetadata after its getFile: without a record it throws 'File not
\* found' (a rejected read throws as well) and the caller alerts; with one it
\* builds updatedFile and opens the transaction of the put
UpdateRead(t, ok) ==
  /\ AsyncTurn
  /\ t.kind = "update" /\ t.pc = "get"
  /\ LET file == GetFile(store, t.fid)
     IN tasks' = IF ok /\ file # None
                 THEN Become(t, [t EXCEPT !.pc = "put",
                                          !.doc = Some(ApplyUpdates(file[1], t.data))])
                 ELSE Finish(t)
  /\ UNCHANGED <<store, libs, fileMeta, fileData, keyValuePairs, mergeStatus, mergeMessage,
                 dataFileName, resultFile, savedDataFiles>>

\* store.put(updatedFile) succeeds (ok) or fails: the record under the key is
\* written, whether or not the key is in the store
UpdatePut(t, ok) ==
  /\ AsyncTurn
  /\ t.kind = "update" /\ t.pc = "put"
  /\ store' = IF ok THEN {r \in store : r.id # t.doc[1].id} \cup {t.doc[1]} ELSE store
  /\ tasks' = Finish(t)
  /\ UNCHANGED <<libs, fileMeta, fileData, keyValuePairs, mergeStatus, mergeMessage,
                 dataFileName, resultFile, savedDataFiles>>

\* handleDelete up to the await of deleteFile
HandleDelete ==
  /\ UserTurn
  /\ fileMeta # None
  /\ NumTasks < MaxTasks
  /\ tasks' = Spawn([BlankTask EXCEPT !.kind = "remove", !.pc = "delete",
                                      !.tgt = fileMeta[1], !.fid = fileMeta[1]])
  /\ UNCHANGED <<store, libs, fileMeta, fileData, keyValuePairs, mergeStatus, mergeMessage,
                 dataFileName, resultFile, savedDataFiles>>

\* deleteFile resolves: onDelete and onClose close the view; it rejects: the
\* caller alerts
HandleDeleteDone(t, ok) ==
  /\ AsyncTurn
  /\ t.kind = "remove" /\ t.pc = "delete"
  /\ store' = IF ok THEN {r \in store : r.id # t.fid} ELSE store
  /\ fileMeta' = IF ok THEN None ELSE fileMeta
  /\ fileData' = IF ok THEN None ELSE fileData
  /\ tasks' = Finish(t)
  /\ UNCHANGED <<libs, keyValuePairs, mergeStatus, mergeMessage, dataFileName, resultFile,
                 savedDataFiles>>

\* the view is opened on a file of the vault; its device type is saved, the
\* file is deleted, and a data file is uploaded for it
NextStore ==
  \/ \E r \in store : OpenDetail(r.id)
  \/ \E c \in CategoryTexts : HandleSaveCategory(c)
  \/ HandleDelete
  \/ \E file \in UploadFiles : UploadDataFile(file)
  \/ \E t \in InFlight : \E ok \in BOOLEAN : FullLoaded(t, ok)
  \/ \E t \in InFlight : \E ok \in BOOLEAN : InitListed(t, ok)
  \/ \E t \in InFlight : \E ok \in BOOLEAN : UpdateRead(t, ok)
  \/ \E t \in InFlight : \E ok \in BOOLEAN : UpdatePut(t, ok)
  \/ \E t \in InFlight : \E ok \in BOOLEAN : HandleDeleteDone(t, ok)
  \/ \E t \in InFlight : \E id \in 1..MaxStore : UploadSaved(t, id)

InitStore ==
  /\ store = {TextTarget}
  /\ libs = AllLibs
  /\ fileMeta = None
  /\ fileData = None
  /\ keyValuePairs = << >>
  /\ mergeStatus = "idle"
  /\ mergeMessage = Msg("")
  /\ dataFileName = None
  /\ resultFile = None
  /\ savedDataFiles = << >>
  /\ tasks = EmptyBag
  /\ customCategories = << >>
  /\ filterType = AllFilter
  /\ steps = 0

SpecStore == InitStore /\ [][NextStore]_vars

\* ================================================================ properties
\* the pairs without their statuses: ids, keys and values
KeysValues(pairs) ==
  [i \in 1..Len(pairs) |-> [id |-> pairs[i].id, key |-> pairs[i].key, value |-> pairs[i].value]]
StatusesOf(pairs) == [i \in 1..Len(pairs) |-> pairs[i].status]

\* the message of the catch block of handleMerge
FailedMsg == Msg("Failed to process file. Ensure identifiers match.")

\* the run t of handleMerge ends in this step
MergeEnds(t) == t.kind = "merge" /\ t.pc \in {"text", "buffer", "raw"} /\ tasks' = Finish(t)
\* the load t ends in this step
LoadEnds(t) ==
  t.kind \in {"load", "init", "select", "upload"} /\ tasks' = Finish(t)

\* the status becomes error in this step
BecomesError == mergeStatus # "error" /\ mergeStatus' = "error"

\* C1, as the specification states it: a step in which the status becomes
\* error leaves the pairs, their keys and their values as they were.
C1_ErrorRetainsPairs ==
  [][BecomesError => KeysValues(keyValuePairs') = KeysValues(keyValuePairs)]_vars

\* C1, amended: when the status becomes error through a data-file load
\* (handleError, or processData with no pair) the pair list is emptied; when it
\* becomes error through the catch block of handleMerge the pairs keep their
\* ids, keys and values: the list is the one before the step, or the one the
\* run captured with the statuses of the presence check.
C1_ErrorClearsOnLoadKeepsOnMerge ==
  [][BecomesError =>
       IF mergeMessage' = FailedMsg
       THEN \/ KeysValues(keyValuePairs') = KeysValues(keyValuePairs)
            \/ \E t \in InFlight :
                 MergeEnds(t) /\ KeysValues(keyValuePairs') = KeysValues(t.pairs)
       ELSE keyValuePairs' = << >>]_vars

\* C1, the case reached: the load of a file of an unsupported format has failed
\* after a data file had been saved for the target, and the list is empty
C1_LoadFailedListEmpty ==
  /\ mergeStatus = "error"
  /\ mergeMessage = Msg("Unsupported file format.")
  /\ dataFileName = Some(BinName)
  /\ keyValuePairs = << >>

\* C2, as the specification states it: a run of handleMerge that fails ends
\* with the status error, without a result document, and with the status of
\* every pair as it was.
C2_FailedMergeKeepsStatuses ==
  [][\A t \in InFlight :
       (MergeEnds(t) /\ mergeStatus' = "error" /\ mergeMessage' = FailedMsg)
         => /\ resultFile' = None
            /\ StatusesOf(keyValuePairs') = StatusesOf(keyValuePairs)]_vars

\* the result document of the run t: what a first run on the document and the
\* pairs the run holds computes
RunResult(doc, pairs) ==
  IF IsDocxTarget(doc)
  THEN ResultOf(doc, DocxMime, Blob("docx", DocxRender(doc.content, DocxData(pairs)).text))
  ELSE TextBranch(doc, pairs).result

\* C3: the status becomes success only in the step that ends a run of
\* handleMerge, and that step sets the result document of that run; no step
\* of a data-file load makes it success.
C3_SuccessOnlyFromMerge ==
  [][(mergeStatus # "success" /\ mergeStatus' = "success") =>
       \E t \in InFlight :
         /\ MergeEnds(t)
         /\ resultFile' # None
         /\ resultFile' = RunResult(t.doc[1], t.pairs)]_vars

\* C3, the case reached: a run has succeeded and its result document is set
C3_MergeSucceeded ==
  /\ mergeStatus = "success"
  /\ resultFile # None
  /\ \A i \in 1..Len(keyValuePairs) : keyValuePairs[i].status # "unset"
  /\ Len(keyValuePairs) > 0

EmptiesPairs == keyValuePairs # << >> /\ keyValuePairs' = << >> /\ tasks' # tasks
ResetsActive == dataFileName # None /\ dataFileName' = None

\* C5, as the specification states it: the status is idle initially and after
\* every step that empties the pair list or resets the active data file (the
\* switch of the target, the clear button, the deletion of the active saved
\* data file, a load that clears the pairs).
C5_IdleAfterClearing ==
  /\ mergeStatus = "idle"
  /\ [][(EmptiesPairs \/ ResetsActive) => mergeStatus' = "idle"]_vars

\* C5, amended: the status is idle initially and after a switch of the target
\* file; the clear button and the deletion of the active saved data file
\* leave the status as it was; a load that clears the pairs sets it to error.
C5_IdleOnlyOnSwitch ==
  /\ mergeStatus = "idle"
  /\ [][(EmptiesPairs \/ ResetsActive) =>
          IF fileMeta' # fileMeta THEN mergeStatus' = "idle"
          ELSE IF \E t \in InFlight : LoadEnds(t) THEN mergeStatus' = "error"
          ELSE mergeStatus' = mergeStatus]_vars

\* C5, the case reached: the active data file was cleared after a successful
\* run and the status is still success
C5_ClearedButSuccess ==
  /\ fileMeta # None
  /\ dataFileName = None
  /\ keyValuePairs = << >>
  /\ savedDataFiles # << >>
  /\ mergeStatus = "success"
  /\ resultFile # None

\* C6, as the specification states it: when every storage call and blob read
\* settles, a state with the status processing is followed by a state with
\* the status idle, success or error.
C6_ProcessingEnds ==
  (mergeStatus = "processing") ~> (mergeStatus \in {"idle", "success", "error"})

\* the data the load t hands to the tail of processData
LoadedData(t) ==
  IF t.pc = "search"
  THEN Enrich(t.data, SearchDeviceInStorage(store, DeviceIdOf(t.data), libs))
  ELSE ParseTextBlob(t.file[1].content)

\* C7, as the specification states it: when the load of a selected or
\* uploaded data file has completed, no result document is held and the pairs
\* are those of the loaded file.
C7_LoadResetsSession ==
  [][\A t \in InFlight :
       (t.kind = "load" /\ t.handler = "text" /\ tasks' = Finish(t)
          /\ mergeStatus' = "idle")
         => /\ resultFile' = None
            /\ Len(keyValuePairs') = Len(ObjEntries(LoadedData(t)))
            /\ \A i \in 1..Len(keyValuePairs') :
                 /\ keyValuePairs'[i].key = ObjEntries(LoadedData(t))[i].key
                 /\ keyValuePairs'[i].value = ObjEntries(LoadedData(t))[i].value]_vars

\* the step of the Discard button: the result document goes, no operation
\* starts or ends, no message is set
DiscardStep ==
  /\ resultFile # None /\ resultFile' = None
  /\ tasks' = tasks /\ mergeMessage' = mergeMessage /\ fileMeta' = fileMeta

\* C8, as the specification states it: discarding the result document leaves
\* no result document, the status idle and the pairs as they were.
C8_DiscardReturnsIdle ==
  [][DiscardStep =>
       /\ mergeStatus' = "idle"
       /\ KeysValues(keyValuePairs') = KeysValues(keyValuePairs)]_vars

\* C8, amended: discarding the result document sets the result document to
\* absent and changes nothing else: the status keeps its value (success after
\* a successful run) and the pair list is unchanged, statuses included.
C8_DiscardOnlyDropsResult ==
  [][DiscardStep =>
       /\ mergeStatus' = mergeStatus
       /\ keyValuePairs' = keyValuePairs
       /\ fileData' = fileData /\ dataFileName' = dataFileName]_vars

\* C8, the case reached: the result of a successful run has been discarded
C8_DiscardedAfterSuccess ==
  /\ mergeStatus = "success"
  /\ resultFile = None
  /\ Len(keyValuePairs) > 0
  /\ \A i \in 1..Len(keyValuePairs) : keyValuePairs[i].status # "unset"

\* C9: the result document a run of handleMerge sets is what a first run
\* computes from the stored content of the document the view has loaded and
\* the pair list of the moment the run was started; a previous result
\* document has no part in it.
C9_ResultFromOriginalAndPairs ==
  [][/\ (resultFile' # None /\ resultFile' # resultFile) =>
          \E t \in InFlight :
            /\ MergeEnds(t)
            /\ \E r \in store : r = t.doc[1] /\ resultFile' = RunResult(r, t.pairs)
     /\ \A t \in InFlight' :
          (t.kind = "merge" /\ t.pc \in {"text", "buffer"}
             /\ (t \notin InFlight \/ tasks'[t] > tasks[t]))
            => t.pairs = keyValuePairs]_vars

\* C9, the case reached: the value of the loaded pair was edited to b and the
\* run on the target text aba has given bbb
C9_RunWithEditedValue ==
  /\ mergeStatus = "success"
  /\ resultFile # None
  /\ resultFile[1].content.text = <<"b", "b", "b">>
  /\ Len(keyValuePairs) = 1
  /\ keyValuePairs[1].key = <<"a">> /\ keyValuePairs[1].value = <<"b">>
  /\ keyValuePairs[1].status = "replaced"

\* C10, as the specification states it: after a successful run of the
\* plain-text branch a pair has the status replaced exactly when its key is
\* not empty and occurs in the text of the document, and not-found otherwise.
C10_ReplacedIffKeyInDocument ==
  (mergeStatus = "success" /\ resultFile # None) =>
    \A i \in 1..Len(keyValuePairs) :
      /\ keyValuePairs[i].status \in {"replaced", "not-found"}
      /\ keyValuePairs[i].status = "replaced" <=>
           (Len(keyValuePairs[i].key) > 0
              /\ Includes(fileData[1].content.text, keyValuePairs[i].key))

\* the name with _merged put before its final extension: before the last dot,
\* or at the end of a name without a dot
MergedBeforeExtension(name) ==
  LET dots == {i \in 1..Len(name) : name[i] = "."}
      last == IF dots = {} THEN Len(name) + 1 ELSE CHOOSE i \in dots : \A j \in dots : j <= i
  IN SubSeq(name, 1, last - 1) \o Merged \o SubSeq(name, last, Len(name))

\* C11, as the specification states it: the result document of a run is named
\* as the target with _merged before its final extension, for every name of the
\* target, so its name differs from the name of the target; its type is the
\* DOCX type in the DOCX branch and the type of the target in the text branch.
C11_MergedBeforeFinalExtension ==
  resultFile # None =>
    /\ resultFile[1].name = MergedBeforeExtension(fileData[1].name)
    /\ resultFile[1].name # fileData[1].name
    /\ resultFile[1].type = IF IsDocxTarget(fileData[1]) THEN DocxMime ELSE fileData[1].type

\* the load t ends in this step at the tail of processData, which sets the
\* list, the status and the message
EmitsLoad(t) ==
  /\ t.kind = "load" /\ t.pc \in {"read", "search"}
  /\ tasks' = Finish(t)
  /\ mergeMessage'.text \in {"Loaded identifiers.", "No identifiers found."}
  /\ <<keyValuePairs', mergeStatus', mergeMessage'>>
       # <<keyValuePairs, mergeStatus, mergeMessage>>

\* the key and the value the specification gives for a non-blank line: split
\* at the first colon, equals sign or comma, or else into white-space tokens
StatedPair(line) ==
  LET trimmed == Trim(line)
      hits == {i \in 1..Len(trimmed) : IsDelim(trimmed[i])}
      first == CHOOSE i \in hits : \A j \in hits : i <= j
      tokens == SplitSpaces(trimmed)
  IN IF hits # {}
     THEN [key |-> Trim(SubSeq(trimmed, 1, first - 1)),
           value |-> Trim(SubSeq(trimmed, first + 1, Len(trimmed)))]
     ELSE [key |-> tokens[1], value |-> JoinSpace(Tail(tokens))]

\* the lines of a text that are not blank
NonBlankLines(text) == SelectSeq(SplitLines(text), LAMBDA l : Len(Trim(l)) > 0)

\* C12, as the specification states it: when the load of a text that is not
\* JSON emits its pairs, every non-blank line has given the pair of the key
\* before its first colon, equals sign or comma and the whole remainder after
\* that one character, or of its first white-space token and the other tokens
\* joined by single spaces (a later line with the same key replacing it).
C12_LinesSplitAtFirstDelimiter ==
  [][\A t \in InFlight :
       (EmitsLoad(t) /\ t.pc = "read" /\ t.handler = "text"
          /\ t.file[1].content.kind = "text")
         => LET lines == NonBlankLines(t.file[1].content.text)
            IN \A l \in 1..Len(lines) :
                 (\A m \in (l + 1)..Len(lines) :
                    StatedPair(lines[m]).key # StatedPair(lines[l]).key)
                   => \E i \in 1..Len(keyValuePairs') :
                        /\ keyValuePairs'[i].key = StatedPair(lines[l]).key
                        /\ keyValuePairs'[i].value = StatedPair(lines[l]).value]_vars

\* the keys of a pair list or of an object, in order
KeysOf(entries) == [i \in 1..Len(entries) |-> entries[i].key]

\* C13, as the specification states it: the pairs a load of a text data file
\* emits are in insertion order, the order in which their keys first occur in
\* the input, whatever the keys are.
C13_PairsInInsertionOrder ==
  [][\A t \in InFlight :
       (EmitsLoad(t) /\ t.handler = "text")
         => KeysOf(keyValuePairs') = KeysOf(LoadedData(t))]_vars

\* C14, as the specification states it: no pair that a load of a data file
\* emits has an empty key, whichever handler has parsed the file.
C14_NoEmptyKeyEmitted ==
  [][\A t \in InFlight :
       EmitsLoad(t) => \A i \in 1..Len(keyValuePairs') : Len(keyValuePairs'[i].key) > 0]_vars

\* C15, as the specification states it: processData looks a device up only
\* when the mapping has a key that is the identifier-column label once the
\* decoration is stripped where both of its sides are present; a key with one
\* side of the decoration is left as it is and triggers no lookup.
C15_LookupOnlyForBalancedLabel ==
  \A t \in InFlight :
    (t.kind = "load" /\ t.pc = "search")
      => \E i \in 1..Len(t.data) : CleanKey(t.data[i].key) = DeviceIdLabel

\* the fields a lookup has found, as the entries processData writes
FoundEntries(details) ==
  IF ~details.found THEN {}
  ELSE {[key |-> Decorated(f[1]), value |-> f[2][1]] :
          f \in {g \in {<<DeviceNameLabel, details.deviceName>>,
                        <<ModelLabel, details.model>>,
                        <<MakerLabel, details.manufacturer>>} :
                   g[2] # None /\ Len(g[2][1]) > 0}}
EntriesOf(pairs) == {[key |-> pairs[i].key, value |-> pairs[i].value] : i \in 1..Len(pairs)}

\* C16: when processData resumes after the lookup, every field the lookup has
\* found is in the emitted list under its decorated label; every entry of the
\* mapping under another key is emitted with its key and value, the device-id
\* entry included; nothing else is emitted, so a field that was not found is
\* neither added nor cleared; and the status is idle, row found or not.
C16_WriteBackOnlyFoundFields ==
  [][\A t \in InFlight :
       (EmitsLoad(t) /\ t.pc = "search")
         => LET found == FoundEntries(SearchDeviceInStorage(store, DeviceIdOf(t.data), libs))
                kept == {e \in EntriesOf(t.data) : \A f \in found : f.key # e.key}
            IN /\ EntriesOf(keyValuePairs') = found \cup kept
               /\ \E e \in kept : StripDecoration(e.key) = DeviceIdLabel
               /\ mergeStatus' = "idle"]_vars

\* C16, the case reached: the lookup has found the device without a model
\* column; the name is written, the maker is not, and the model of the data
\* file is kept beside the device id
C16_NameWrittenModelKept ==
  /\ mergeStatus = "idle"
  /\ EntriesOf(keyValuePairs) =
       {[key |-> DeviceIdLabel, value |-> <<"7">>],
        [key |-> Decorated(ModelLabel), value |-> <<"o">>],
        [key |-> Decorated(DeviceNameLabel), value |-> <<"n">>]}

\* the operation t, resumed in this step, hands a file to parseAndLoadDataFile:
\* the upload after its save has failed or its list has returned, the
\* auto-load and the selection after getFile has given the file
CopiesOf(t, bag) == IF t \in BagToSet(bag) THEN bag[t] ELSE 0
HandsFile(t) ==
  /\ CopiesOf(t, tasks') < CopiesOf(t, tasks)
  /\ \/ t.kind = "upload" /\ (t.pc = "list" \/ (t.pc = "save" /\ store' = store))
     \/ t.kind \in {"init", "select"} /\ t.pc = "get" /\ GetFile(store, t.fid) # None
  /\ ~InitFetched(t, FALSE)
  /\ ~SelectFetched(t, FALSE)
HandedName(t) == IF t.kind = "upload" THEN t.file[1].name ELSE GetFile(store, t.fid)[1].name

HasExtension(name, exts) == \E e \in exts : EndsWith(ToLowerCase(name), e)
TextExtensions == {JsonExt, TxtExt, CsvExt}
SheetExtensions == {XlsxExt, XlsExt}
WordExtensions == {DocxExt, DocExt}

\* the load fails on the spot with this message: the status is error, the
\* list is empty and nothing is left in flight for it
FailsWith(t, text) ==
  /\ mergeStatus' = "error"
  /\ mergeMessage' = Msg(text)
  /\ keyValuePairs' = << >>
  /\ tasks' = Finish(t)

\* C17: a data file whose name ends, in whatever case, in none of .json, .txt,
\* .csv, .xlsx, .xls, .docx, .doc makes its load end in error with the
\* unsupported-format message and an empty list; a spreadsheet or Word file
\* whose decoding library is absent makes its load end in error with the
\* message of that library, which is none of the parse-failure messages.
C17_UnsupportedAndMissingLibraryFail ==
  [][\A t \in InFlight :
       HandsFile(t) =>
         LET name == HandedName(t)
         IN /\ ~HasExtension(name, TextExtensions \cup SheetExtensions \cup WordExtensions)
                 => FailsWith(t, "Unsupported file format.")
            /\ (HasExtension(name, SheetExtensions) /\ ~libs.XLSX)
                 => FailsWith(t, "Excel parser library not loaded. Please refresh.")
            /\ (~HasExtension(name, SheetExtensions) /\ HasExtension(name, WordExtensions)
                  /\ ~libs.mammoth)
                 => FailsWith(t, "Word parser library not loaded. Please refresh.")
            /\ mergeMessage'.text \in
                 {"Excel parser library not loaded. Please refresh.",
                  "Word parser library not loaded. Please refresh."}
                 => /\ ~libs.XLSX \/ ~libs.mammoth
                    /\ mergeMessage'.text \notin
                         {"Failed to parse text file.", "Failed to parse Excel file.",
                          "Failed to parse Word file.", "Failed to read Word file."}]_vars

\* C17, the case reached: a spreadsheet data file was loaded on a page without
\* the spreadsheet library
C17_SheetWithoutLibrary ==
  /\ mergeStatus = "error"
  /\ mergeMessage = Msg("Excel parser library not loaded. Please refresh.")
  /\ dataFileName = Some(XlsxName)
  /\ ~libs.XLSX
  /\ keyValuePairs = << >>
  /\ tasks = EmptyBag

\* C18, as the specification states it: when the detail view opens on a
\* target with several data files, initDataMerge fetches the one that was
\* saved last, whatever the lastModified of the files: every other data file
\* of the target was saved before the one that is fetched.
C18_AutoLoadsLastSaved ==
  [][\A t \in InFlight' :
       (t.kind = "init" /\ t.pc = "get" /\ CopiesOf(t, tasks') > CopiesOf(t, tasks))
         => \A r \in store :
              (r.isDataMergeFile /\ r.parentFileId = Some(t.tgt) /\ r.id # t.fid)
                => r.id = SavedFirst(r.lastModified).id
                     /\ t.fid = SavedLast(r.lastModified).id]_vars

\* a label that is IMAGES, DOCUMENTS or DEVICE TYPE once trimmed, whatever
\* its case
IsReservedLabel(label) == ToUpperCase(Trim(label)) \in {Images, Documents, DeviceType}
NoLabelTwice(list) ==
  \A i \in 1..Len(list) : \A j \in 1..Len(list) : list[i] = list[j] => i = j

\* C19: the category list holds no reserved label and no label twice, after
\* every sequence of adds and deletes from a list that holds none; and a step
\* that lengthens the list appends one label that is not reserved and was not
\* in the list, so an add of a reserved or present label changes nothing.
C19_NoReservedNoDuplicate ==
  /\ [](/\ \A i \in 1..Len(customCategories) : ~IsReservedLabel(customCategories[i])
        /\ NoLabelTwice(customCategories))
  /\ [][Len(customCategories') >= Len(customCategories) =>
          \/ customCategories' = customCategories
          \/ \E label \in {Trim(name) : name \in CategoryNames} :
               /\ customCategories' = Append(customCategories, label)
               /\ ~IsReservedLabel(label)
               /\ \A i \in 1..Len(customCategories) : customCategories[i] # label]_vars

\* C19, the case reached: three labels were added to the empty list in four
\* user actions, so one add, of a reserved or of a present label, has left
\* the list as it was
C19_RejectedAddLeftList ==
  /\ steps = 4
  /\ customCategories = <<<<"a">>, <<"A">>, <<"b">>>>

\* C20, as the specification states it: while a data-file load (the
\* selection of a saved file, an upload, the auto-load once it has a file to
\* fetch) or a run of handleMerge is in flight, the status is processing.
C20_ProcessingWhileInFlight ==
  \A t \in InFlight :
    (t.kind \in {"select", "upload", "load", "merge"} \/ (t.kind = "init" /\ t.pc = "get"))
      => mergeStatus = "processing"

\* a load completed while the run t of handleMerge was in flight: the run set
\* the status to processing when it started, and only the tail of processData
\* leaves it idle with this message
LoadEndedDuring(t) ==
  /\ t.kind = "merge"
  /\ fileMeta = Some(t.tgt)
  /\ mergeStatus = "idle"
  /\ mergeMessage.text = "Loaded identifiers."

\* a run of handleMerge ended while the load t was reading or searching: the
\* load set the status to processing when it started to read
MergeEndedDuring(t) ==
  /\ t.kind = "load" /\ t.pc \in {"read", "search"}
  /\ mergeStatus \in {"success", "error"}
  /\ mergeMessage.text \in {"Success! Replaced instances.",
                            "Processed successfully! Ready to download.",
                            "Failed to process file. Ensure identifiers match."}

\* C21, as the specification states it: when a data-file load and a run of
\* handleMerge overlap, the step that ends the later of the two leaves the
\* pair list, the status and the message that operation writes: a run leaves
\* the pairs it captured with their statuses set, its status and its message;
\* a load leaves the pairs it emits, unset, with idle and their number, or the
\* empty list with error.
C21_LastCompletionWins ==
  [][\A t \in InFlight :
       /\ (MergeEnds(t) /\ LoadEndedDuring(t))
            => /\ KeysValues(keyValuePairs') = KeysValues(t.pairs)
               /\ \A i \in 1..Len(keyValuePairs') : keyValuePairs'[i].status # "unset"
               /\ mergeStatus' \in {"success", "error"}
               /\ mergeMessage' # mergeMessage
       /\ (LoadEnds(t) /\ MergeEndedDuring(t) /\ mergeStatus' # mergeStatus)
            => /\ \A i \in 1..Len(keyValuePairs') : keyValuePairs'[i].status = "unset"
               /\ IF Len(keyValuePairs') > 0
                  THEN /\ mergeStatus' = "idle"
                       /\ mergeMessage' = MsgN("Loaded identifiers.", Len(keyValuePairs'))
                  ELSE mergeStatus' = "error" /\ mergeMessage' # mergeMessage]_vars

\* the occurrences of the keys of the pairs in the text, pair by pair
RECURSIVE SumMatches(_, _)
SumMatches(text, pairs) ==
  IF Len(pairs) = 0 THEN 0
  ELSE (IF Len(Head(pairs).key) > 0 THEN CountMatches(text, Head(pairs).key) ELSE 0)
       + SumMatches(text, Tail(pairs))

\* the pairs in the opposite order
Reversed(pairs) == [i \in 1..Len(pairs) |-> pairs[Len(pairs) + 1 - i]]

\* no key of a pair occurs inside the value of another pair
NoKeyInOtherValue(pairs) ==
  \A i, j \in 1..Len(pairs) :
    (i # j /\ Len(pairs[i].key) > 0) => ~Includes(pairs[j].value, pairs[i].key)

\* C22, as the specification states it: a successful run of the plain-text
\* branch replaces, for each pair, the occurrences of its key in the original
\* text of the document and no others, so the number of replacements is the
\* number of those occurrences and a pair is replaced exactly when its key
\* occurs in the original text; and when no key occurs inside the value of
\* another pair the result text is the same for the pairs in the opposite order.
C22_PairsSubstitutedIndependently ==
  [][\A t \in InFlight :
       (MergeEnds(t) /\ t.pc = "text" /\ mergeStatus' = "success")
         => LET text == t.doc[1].content.text
            IN /\ mergeMessage'.n = SumMatches(text, t.pairs)
               /\ \A i \in 1..Len(keyValuePairs') :
                    keyValuePairs'[i].status = "replaced"
                      <=> (Len(t.pairs[i].key) > 0 /\ Includes(text, t.pairs[i].key))
               /\ NoKeyInOtherValue(t.pairs)
                    => resultFile'[1].content.text
                         = TextMerge(text, Reversed(t.pairs)).content]_vars

\* every occurrence of key in s, from position i on, replaced by value as it
\* is written
RECURSIVE VerbatimFrom(_, _, _, _)
VerbatimFrom(s, key, value, i) ==
  IF i > Len(s) THEN << >>
  ELSE IF IsPrefixAt(s, key, i) THEN value \o VerbatimFrom(s, key, value, i + Len(key))
       ELSE <<s[i]>> \o VerbatimFrom(s, key, value, i + 1)

\* the pairs applied one after the other, each value put in as it is written
RECURSIVE VerbatimMerge(_, _)
VerbatimMerge(text, pairs) ==
  IF Len(pairs) = 0 THEN text
  ELSE VerbatimMerge(IF Len(Head(pairs).key) > 0 /\ Includes(text, Head(pairs).key)
                     THEN VerbatimFrom(text, Head(pairs).key, Head(pairs).value, 1)
                     ELSE text,
                     Tail(pairs))

\* C23, as the specification states it: in the result of a successful run of
\* the plain-text branch every replaced occurrence of a key stands replaced by
\* the value of its pair, character for character, whatever the value holds.
C23_ValuesSubstitutedVerbatim ==
  [][\A t \in InFlight :
       (MergeEnds(t) /\ t.pc = "text" /\ mergeStatus' = "success")
         => resultFile'[1].content.text
              = VerbatimMerge(t.doc[1].content.text, t.pairs)]_vars

\* the device-info documents in the order of the store listing
ListedDeviceFiles ==
  LET metas == SelectSeq(GetAllMetadata(store), LAMBDA f : f.isDeviceInfo)
  IN [d \in 1..Len(metas) |-> GetFile(store, metas[d].id)[1]]

\* the rows of a device-info document, each with the cell of its identifier
\* column and the cells under the three field labels: the rows after the
\* header row of a sheet, the rows after the first row of every table of a
\* Word document whose first row names the identifier column
SheetRowsSeen(rows) ==
  [r \in 1..(Len(rows) - 1) |->
     LET obj == SheetObject(rows[1], rows[r + 1])
     IN [id |-> FieldOf(obj, DeviceIdLabel),
         deviceName |-> FieldOf(obj, DeviceNameLabel),
         model |-> FieldOf(obj, ModelLabel),
         manufacturer |-> FieldOf(obj, MakerLabel)]]
TableRowsSeen(table) ==
  IF Len(table) < 2 \/ IndexOfText(table[1], DeviceIdLabel) = 0 THEN << >>
  ELSE [r \in 1..(Len(table) - 1) |->
          [id |-> TdText(table[r + 1], IndexOfText(table[1], DeviceIdLabel)),
           deviceName |-> TdText(table[r + 1], IndexOfText(table[1], DeviceNameLabel)),
           model |-> TdText(table[r + 1], IndexOfText(table[1], ModelLabel)),
           manufacturer |-> TdText(table[r + 1], IndexOfText(table[1], MakerLabel))]]
RowsSeen(file) ==
  IF HasExtension(file.name, {XlsxExt, XlsExt}) /\ libs.XLSX /\ file.content.kind = "xlsx"
  THEN SheetRowsSeen(file.content.rows)
  ELSE IF HasExtension(file.name, {DocxExt, DocExt}) /\ libs.mammoth
          /\ file.content.kind = "docx"
  THEN Concat([i \in 1..Len(file.content.tables) |-> TableRowsSeen(file.content.tables[i])])
  ELSE << >>

\* the decoder can read the document
Readable(file) ==
  /\ (HasExtension(file.name, {XlsxExt, XlsExt}) /\ libs.XLSX) => file.content.kind = "xlsx"
  /\ (~HasExtension(file.name, {XlsxExt, XlsExt})
        /\ HasExtension(file.name, {DocxExt, DocExt}) /\ libs.mammoth)
       => file.content.kind = "docx"

\* the places <<document, row>> whose identifier cell, trimmed, is the trimmed
\* device id, and the fields of the first of them
MatchingRows(deviceId) ==
  {h \in UNION {{<<d, r>> : r \in 1..Len(RowsSeen(ListedDeviceFiles[d]))} :
                  d \in 1..Len(ListedDeviceFiles)} :
     LET row == RowsSeen(ListedDeviceFiles[h[1]])[h[2]]
     IN row.id # None /\ Trim(row.id[1]) = Trim(deviceId)}
FirstMatchingRow(deviceId) ==
  IF MatchingRows(deviceId) = {} THEN NotFound
  ELSE LET h == CHOOSE h \in MatchingRows(deviceId) :
                  \A g \in MatchingRows(deviceId) :
                    h[1] < g[1] \/ (h[1] = g[1] /\ h[2] <= g[2])
           row == RowsSeen(ListedDeviceFiles[h[1]])[h[2]]
       IN [found |-> TRUE, deviceName |-> row.deviceName, model |-> row.model,
           manufacturer |-> row.manufacturer]

\* C24: when every device-info document can be read, the fields processData
\* writes back after the lookup are those of the first row, in the first
\* document of the store listing that has one, whose identifier cell equals
\* the device id after both are trimmed; a later row or document adds nothing,
\* also when that first row holds none of the three fields.
C24_FirstMatchingRowWins ==
  [][\A t \in InFlight :
       (/\ EmitsLoad(t) /\ t.pc = "search"
        /\ \A d \in 1..Len(ListedDeviceFiles) : Readable(ListedDeviceFiles[d]))
         => LET found == FoundEntries(FirstMatchingRow(DeviceIdOf(t.data)))
                kept == {e \in EntriesOf(t.data) : \A f \in found : f.key # e.key}
            IN EntriesOf(keyValuePairs') = found \cup kept]_vars

\* C24, the case reached: the document listed first holds the device in a row
\* without any field, the document listed after it holds the device with its
\* three fields, and the emitted list holds the device id alone
C24_BareRowStopsScan ==
  /\ \E r \in store : r.id = 4 /\ r.content = BareSheet
  /\ \E r \in store : r.id = 3 /\ r.content = FullSheet
  /\ mergeStatus = "idle"
  /\ mergeMessage = MsgN("Loaded identifiers.", 1)
  /\ EntriesOf(keyValuePairs) = {[key |-> DeviceIdLabel, value |-> <<"7">>]}

\* C25, as the specification states it: when a device-info document cannot be
\* read, the lookup passes over it and goes on with the documents listed after
\* it, so the fields written back are those of the first matching row of the
\* documents that can be read.
C25_UnreadableDocumentSkipped ==
  [][\A t \in InFlight :
       (/\ EmitsLoad(t) /\ t.pc = "search"
        /\ \E d \in 1..Len(ListedDeviceFiles) : ~Readable(ListedDeviceFiles[d]))
         => LET found == FoundEntries(FirstMatchingRow(DeviceIdOf(t.data)))
                kept == {e \in EntriesOf(t.data) : \A f \in found : f.key # e.key}
            IN EntriesOf(keyValuePairs') = found \cup kept]_vars

\* the ids of the pairs of the list
PairIds == {keyValuePairs[i].id : i \in 1..Len(keyValuePairs)}

\* C26: an edit of the key or the value of the pair with a given id leaves the
\* list with the same length, order and ids, sets the edited field of that
\* pair to the new text and its status to unset, keeps its other field, and
\* keeps every other pair as it was; removePair leaves the list without the
\* pair of that id and with every other pair in its place in the order;
\* addPair leaves the list with one more pair at its end, of a new id, with an
\* empty key, an empty value and the status unset.
C26_EditsTouchOnePair ==
  [][/\ \A id \in PairIds : \A field \in {"key", "value"} : \A v \in EditTexts :
          HandlePairChange(id, field, v)
            => /\ Len(keyValuePairs') = Len(keyValuePairs)
               /\ \A i \in 1..Len(keyValuePairs) :
                    IF keyValuePairs[i].id = id
                    THEN /\ keyValuePairs'[i].id = id
                         /\ keyValuePairs'[i][field] = v
                         /\ keyValuePairs'[i].status = "unset"
                         /\ \A other \in {"key", "value"} \ {field} :
                              keyValuePairs'[i][other] = keyValuePairs[i][other]
                    ELSE keyValuePairs'[i] = keyValuePairs[i]
     /\ \A id \in PairIds :
          RemovePair(id)
            => /\ Len(keyValuePairs') = Len(keyValuePairs) - 1
               /\ \A i \in 1..Len(keyValuePairs') : keyValuePairs'[i].id # id
               /\ \A i \in 1..Len(keyValuePairs) :
                    keyValuePairs[i].id # id
                      => keyValuePairs'[i - Cardinality({j \in 1..i : keyValuePairs[j].id = id})]
                           = keyValuePairs[i]
     /\ AddPair
          => /\ Len(keyValuePairs') = Len(keyValuePairs) + 1
             /\ SubSeq(keyValuePairs', 1, Len(keyValuePairs)) = keyValuePairs
             /\ LET p == keyValuePairs'[Len(keyValuePairs')]
                IN /\ p.key = << >> /\ p.value = << >> /\ p.status = "unset"
                   /\ p.id \notin PairIds]_vars

\* C26, the case reached: after a run on the loaded pair and a pair added by
\* hand, the key of the added pair was edited: its status is unset again and
\* the loaded pair is still marked replaced
C26_EditedPairUnsetOtherKept ==
  /\ Len(keyValuePairs) = 2
  /\ keyValuePairs[1].key = <<"a">> /\ keyValuePairs[1].value = <<"x">>
  /\ keyValuePairs[1].status = "replaced"
  /\ keyValuePairs[2].key = <<"b">> /\ keyValuePairs[2].value = << >>
  /\ keyValuePairs[2].status = "unset"
  /\ mergeStatus = "success"

\* C27, as stated: while the detail view is open, a result document is held
\* only with the status success, and it is the document a run computes from
\* the target and the pair list that is shown.
C27_ResultOnlyWithSuccess ==
  (fileMeta # None /\ resultFile # None)
    => /\ mergeStatus = "success"
       /\ fileData # None
       /\ resultFile = RunResult(fileData[1], keyValuePairs)

\* the operation t takes a step, and it was started for a target that is not
\* the target the detail view now shows
StaleStep(t) ==
  /\ t.kind \in {"load", "init", "select", "upload", "merge"}
  /\ CopiesOf(t, tasks') < CopiesOf(t, tasks)
  /\ fileMeta # None /\ fileMeta # Some(t.tgt)

\* C28, as stated: after the detail view has been switched to another target,
\* no step of a data-file load or of a run of handleMerge that was started for
\* the previous target changes the pair list, the status, the message or the
\* result document.
C28_NothingFromPreviousTarget ==
  [][\A t \in InFlight :
       StaleStep(t) => UNCHANGED <<keyValuePairs, mergeStatus, mergeMessage, resultFile>>]_vars

\* C29, as the specification states it: updateMetadata on an id without a
\* record ends there and leaves the store as it is; and a record comes to be
\* under an id that had none only by a saveFile, so an id that deleteFile has
\* removed stays without a record whatever updateMetadata does around it.
C29_UpdateNeverRecreates ==
  [][/\ \A t \in InFlight :
          (/\ t.kind = "update" /\ t.pc = "get"
           /\ CopiesOf(t, tasks') < CopiesOf(t, tasks)
           /\ GetFile(store, t.fid) = None)
            => store' = store /\ tasks' = Finish(t)
     /\ \A r \in store' :
          GetFile(store, r.id) = None => \E t \in InFlight : UploadSaved(t, r.id)]_vars

\* the pairs shown are those the load of the record gives, and the active
\* data file has its name
PairsLoadedFrom(r) ==
  /\ r.isDataMergeFile /\ r.content.kind = "text"
  /\ dataFileName = Some(r.name)
  /\ Len(keyValuePairs) > 0
  /\ LET es == ObjEntries(ParseTextBlob(r.content))
     IN /\ Len(es) = Len(keyValuePairs)
        /\ \A i \in 1..Len(es) :
             keyValuePairs[i].key = es[i].key /\ keyValuePairs[i].value = es[i].value

\* C30, as stated: when handleDeleteSavedFile ends for a record that is not
\* the one the pairs were loaded from (that record is still in the store),
\* the name of the active data file and the pair list are as before, also when
\* the deleted record had the name of the active data file.
C30_DeletingOtherFileKeepsPairs ==
  [][\A t \in InFlight :
       (/\ t.kind = "delete" /\ t.pc = "list" /\ tasks' = Finish(t)
        /\ \E r \in store : r.id # t.fid /\ PairsLoadedFrom(r))
         => UNCHANGED <<dataFileName, keyValuePairs>>]_vars

====
